---------------------------- MODULE Spec2Model ----------------------------
(***************************************************************************)
(* Model of the product search of src/index.js: the fuzzy matching engine *)
(* (filterProductsWithFuzzy, calculateSimilarity, levenshteinDistance),    *)
(* the formatter (formatProductResponse) and the cached catalog lookup     *)
(* (queryMySQLProducts, fetchAllProductsFromMySQL), the webhook handler,   *)
(* and of the sync job of src/shopify-to-mysql-sync.js.                    *)
(*                                                                         *)
(* A JavaScript string is a sequence of one-character strings.  A          *)
(* JavaScript value whose being an array matters is a record               *)
(* [type |-> "array", items |-> <<...>>] or [type |-> "null"], ...         *)
(* A number returned by calculateSimilarity is the fraction <<num, den>>.  *)
(*                                                                         *)
(* Spec    : calls of filterProductsWithFuzzy on catalogs and word lists   *)
(* SpecSim : calls of levenshteinDistance and calculateSimilarity          *)
(* SpecFormat : the filter and format steps, and direct formatter calls    *)
(* SpecCache  : concurrent queryMySQLProducts calls on the shared cache    *)
(* SpecDiagnostic : the filter with its diagnostic matchedWords pass       *)
(* SpecWebhook : POST /webhook requests with their timer and Gemini calls  *)
(* SpecExpiry  : the calls of SpecCache against a minute-by-minute clock   *)
(* SpecSync    : runs of syncShopifyToMySQL (src/shopify-to-mysql-sync.js) *)
(***************************************************************************)
EXTENDS Integers, Sequences, FiniteSets, TLC

VARIABLES
  products,     \* the products argument of the filterProductsWithFuzzy call
  searchWords,  \* the searchWords argument of that call
  filtered,     \* what the call returned
  pc,           \* "input": arguments chosen, "done": the call has returned
  str1,         \* first argument of calculateSimilarity / levenshteinDistance
  str2,         \* second argument
  distance,     \* result of levenshteinDistance(str1, str2), once called
  similarity,   \* result of calculateSimilarity(str1, str2), once called
  called,       \* the functions of the scorer that have returned
  calls,        \* how many calls of filterProductsWithFuzzy have returned
  response,     \* what formatProductResponse returned: the lines of the text
  mysqlCache,   \* the module-level product cache { data, timestamp }
  gemstoneCache,\* the module-level cache of corrected names
  heap,         \* the arrays that fetchAllProductsFromMySQL has built
  db,           \* the revision of the catalog that the database holds
  requests,     \* the queryMySQLProducts calls in flight, one per request
  clock,        \* Date.now(), in minutes
  storedAt,     \* the clock reading at which mysqlCache.data was assigned
  hook,         \* the POST /webhook request being handled, with its res
  sync,         \* the run of syncShopifyToMySQL, with its connection pool
  tables        \* the committed rows of products, product_variants, sync_log

\* the module-level caches and what the cache specification adds to them
cacheVars == <<mysqlCache, gemstoneCache, heap, db, requests, clock, storedAt>>

\* the webhook request, the sync run and the tables it writes
serviceVars == <<hook, sync, tables>>

vars == <<products, searchWords, filtered, pc, str1, str2, distance, similarity,
          called, calls, response, cacheVars, serviceVars>>

\* the variables that the sync job leaves alone: those of src/index.js
indexVars == <<products, searchWords, filtered, pc, str1, str2, distance,
               similarity, called, calls, response, cacheVars, hook>>

---------------------------------------------------------------------------
(* Bounds of the model *)

\* longest string handed to calculateSimilarity / levenshteinDistance
MaxStrLen == 3

\* longest catalog built from every ordering of pool products
MaxProducts == 2

\* longest catalog of the cyclic family (long enough to pass SLICE_LIMIT)
MaxCatalog == 21

\* longest list of search words
MaxTokens == 2

\* most calls of filterProductsWithFuzzy on one catalog
MaxCalls == 2

\* characters the strings of SpecSim are made of
Alphabet == {"a", "b", "c"}

---------------------------------------------------------------------------
(* JavaScript strings *)

Min(a, b) == IF a < b THEN a ELSE b

Max(a, b) == IF a > b THEN a ELSE b

UpperChars == <<"A", "B", "C", "D", "E", "F", "G", "H", "I", "J", "K", "L", "M",
                "N", "O", "P", "Q", "R", "S", "T", "U", "V", "W", "X", "Y", "Z">>

LowerChars == <<"a", "b", "c", "d", "e", "f", "g", "h", "i", "j", "k", "l", "m",
                "n", "o", "p", "q", "r", "s", "t", "u", "v", "w", "x", "y", "z">>

\* the lower-case letter of every upper-case letter
LowerOf ==
  [c \in {UpperChars[k] : k \in 1..Len(UpperChars)} |->
     LowerChars[CHOOSE k \in 1..Len(UpperChars) : UpperChars[k] = c]]

\* String.prototype.toLowerCase, one character
toLowerCaseChar(c) == IF c \in DOMAIN LowerOf THEN LowerOf[c] ELSE c

\* String.prototype.toLowerCase
toLowerCase(s) == [k \in 1..Len(s) |-> toLowerCaseChar(s[k])]

\* String.prototype.substring(start, end): both indices are clamped to
\* 0..length and swapped when start > end; the result is s[lo..hi-1] (0-based)
substring(s, start, end) ==
  LET a  == Max(0, Min(start, Len(s)))
      b  == Max(0, Min(end, Len(s)))
      lo == Min(a, b)
      hi == Max(a, b)
  IN  SubSeq(s, lo + 1, hi)

\* String.prototype.includes: sub occurs in s as a contiguous run
includes(s, sub) ==
  \E i \in 0..(Len(s) - Len(sub)) : \A j \in 1..Len(sub) : s[i + j] = sub[j]

\* String.prototype.split(' '): the pieces between single spaces, empty
\* pieces included
RECURSIVE splitFrom(_, _, _)
splitFrom(s, k, piece) ==
  IF k > Len(s) THEN <<piece>>
  ELSE IF s[k] = " " THEN <<piece>> \o splitFrom(s, k + 1, <<>>)
  ELSE splitFrom(s, k + 1, Append(piece, s[k]))

split(s) == splitFrom(s, 1, <<>>)

---------------------------------------------------------------------------
(* levenshteinDistance, src/index.js:587-613 *)

Min3(a, b, c) == Min(a, Min(b, c))

\* the same cell with the deletion term matrix[i - 1][j] left out
matrixCellNoUp(c2, c1, diag, left, up) ==
  IF c2 = c1 THEN diag ELSE Min(diag + 1, left + 1)

\* matrix[i][j] from str2.charAt(i - 1), str1.charAt(j - 1) and the three
\* neighbours matrix[i-1][j-1], matrix[i][j-1], matrix[i-1][j]
matrixCell(c2, c1, diag, left, up) ==
  IF c2 = c1 THEN diag ELSE Min3(diag + 1, left + 1, up + 1)

\* row i of the matrix (i >= 1), filled for j = 1..str1.length from the row
\* above; a row is the sequence matrix[i][0..str1.length], kept 1-based
RECURSIVE matrixRow(_, _, _, _, _)
matrixRow(s1, s2, i, above, row) ==
  LET j == Len(row)
  IN  IF j > Len(s1) THEN row
      ELSE matrixRow(s1, s2, i, above,
             Append(row, matrixCell(s2[i], s1[j], above[j], row[j], above[j + 1])))

\* rows 0..i of the matrix; row 0 is matrix[0][j] = j and every row starts
\* with matrix[i][0] = i
RECURSIVE matrixRows(_, _, _)
matrixRows(s1, s2, i) ==
  IF i = 0 THEN <<[j \in 1..(Len(s1) + 1) |-> j - 1]>>
  ELSE LET rows == matrixRows(s1, s2, i - 1)
       IN  Append(rows, matrixRow(s1, s2, i, rows[i], <<i>>))

levenshteinDistance(s1, s2) ==
  matrixRows(s1, s2, Len(s2))[Len(s2) + 1][Len(s1) + 1]

---------------------------------------------------------------------------
(* calculateSimilarity, src/index.js:576-584 *)

\* the similarity that ignores which argument is the longer one
calculateSimilarityUnordered(a, b) ==
  IF Len(a) = 0 THEN <<1, 1>>
  ELSE <<Len(a) - levenshteinDistance(a, b), Len(a)>>

\* the similarity without the guard for two empty strings
calculateSimilarityNoGuard(a, b) ==
  LET longer  == IF Len(a) > Len(b) THEN a ELSE b
      shorter == IF Len(a) > Len(b) THEN b ELSE a
  IN  <<Len(longer) - levenshteinDistance(longer, shorter), Len(longer)>>

\* The returned number is the fraction num/den, kept as <<num, den>>; 1.0 is
\* <<1, 1>>.
calculateSimilarity(a, b) ==
  LET longer  == IF Len(a) > Len(b) THEN a ELSE b
      shorter == IF Len(a) > Len(b) THEN b ELSE a
  IN  IF Len(longer) = 0 THEN <<1, 1>>
      ELSE <<Len(longer) - levenshteinDistance(longer, shorter), Len(longer)>>

\* FUZZY_THRESHOLD = 0.6 = 3/5
FUZZY_THRESHOLD_NUM == 3
FUZZY_THRESHOLD_DEN == 5

\* similarity >= FUZZY_THRESHOLD.  The double (L - d) / L is >= the double 0.6
\* exactly when 5 * (L - d) >= 3 * L, for every L below 200.
atLeastThreshold(sim) ==
  sim[1] * FUZZY_THRESHOLD_DEN >= FUZZY_THRESHOLD_NUM * sim[2]

---------------------------------------------------------------------------
(* The module-level caches as the module creates them *)

\* let mysqlCache = { data: null, timestamp: 0 }
InitialMysqlCache == [data |-> [type |-> "null"], timestamp |-> 0]

\* let gemstoneCache = { data: null, timestamp: 0, correctedNames: new Map() }
InitialGemstoneCache ==
  [data |-> [type |-> "null"], timestamp |-> 0, correctedNames |-> {}]

\* no POST /webhook request received yet
IdleHook ==
  [pc |-> "idle", apiKey |-> FALSE, text |-> <<>>, correctedText |-> <<>>,
   normalized |-> "none", words |-> <<>>, queried |-> FALSE,
   timeout |-> "none", replies |-> <<>>, sent |-> <<>>, rejected |-> FALSE,
   received |-> 0]

\* syncShopifyToMySQL not called yet: let connectionPool (line 14) is
\* undefined
IdleSync ==
  [pc |-> "idle", config |-> TRUE, connectionPool |-> "undefined",
   connection |-> "none", transaction |-> FALSE,
   work |-> [products |-> {}, product_variants |-> <<>>],
   before |-> [products |-> {}, product_variants |-> <<>>],
   feed |-> <<>>, products |-> <<>>, i |-> 0, j |-> 0,
   productsUpdated |-> 0, variantsUpdated |-> 0,
   failed |-> "none", saved |-> "none", thrown |-> "none",
   error |-> "none", logged |-> 0, outcome |-> "none",
   result |-> [state |-> "pending"], runs |-> 0]

\* the tables as setup-mysql.sql leaves them: no product, no variant, one
\* sync_log row
InitialTables ==
  [products |-> {}, product_variants |-> <<>>,
   sync_log |-> <<[products_fetched |-> 0, products_updated |-> 0,
                   variants_fetched |-> 0, variants_updated |-> 0,
                   status |-> "success"]>>]

\* the caches untouched, no request in flight, no sync run
CachesUntouched ==
  /\ mysqlCache = InitialMysqlCache
  /\ gemstoneCache = InitialGemstoneCache
  /\ heap = <<>>
  /\ db = 1
  /\ requests = <<>>
  /\ clock = 0
  /\ storedAt = 0
  /\ hook = IdleHook
  /\ sync = IdleSync
  /\ tables = InitialTables

---------------------------------------------------------------------------
(* Specification SpecSim: calls of levenshteinDistance and                 *)
(* calculateSimilarity on every pair of strings up to MaxStrLen            *)

RECURSIVE StringsOfLen(_)
StringsOfLen(n) ==
  IF n = 0 THEN {<<>>}
  ELSE {Append(s, c) : s \in StringsOfLen(n - 1), c \in Alphabet}

Strings == UNION {StringsOfLen(n) : n \in 0..MaxStrLen}

InitSim ==
  /\ str1 \in Strings
  /\ str2 \in Strings
  /\ distance = 0
  /\ similarity = <<0, 1>>
  /\ called = {}
  /\ products = [type |-> "array", items |-> <<>>]
  /\ searchWords = [type |-> "array", items |-> <<>>]
  /\ filtered = <<>>
  /\ pc = "input"
  /\ calls = 0
  /\ response = <<>>
  /\ CachesUntouched

\* the call levenshteinDistance(str1, str2)
CallLevenshtein ==
  /\ "levenshteinDistance" \notin called
  /\ distance' = levenshteinDistance(str1, str2)
  /\ called' = called \cup {"levenshteinDistance"}
  /\ UNCHANGED <<products, searchWords, filtered, pc, calls, str1, str2, similarity,
               response, cacheVars, serviceVars>>

\* the call calculateSimilarity(str1, str2)
CallSimilarity ==
  /\ "calculateSimilarity" \notin called
  /\ similarity' = calculateSimilarity(str1, str2)
  /\ called' = called \cup {"calculateSimilarity"}
  /\ UNCHANGED <<products, searchWords, filtered, pc, calls, str1, str2, distance,
               response, cacheVars, serviceVars>>

NextSim == CallLevenshtein \/ CallSimilarity

SpecSim == InitSim /\ [][NextSim]_vars


---------------------------------------------------------------------------
(* The strings of the inputs *)

\* "Amethyst Round Beads"
AMETHYST ==
  <<"A", "m", "e", "t", "h", "y", "s", "t", " ", "R", "o", "u", "n", "d", " ", "B", "e", "a", "d", "s">>

\* "Ruby Gemstone"
RUBYGEM ==
  <<"R", "u", "b", "y", " ", "G", "e", "m", "s", "t", "o", "n", "e">>

\* "Emerald"
EMERALD ==
  <<"E", "m", "e", "r", "a", "l", "d">>

\* "Semiprecious gem"
SEMIPRECIOUS_GEM ==
  <<"S", "e", "m", "i", "p", "r", "e", "c", "i", "o", "u", "s", " ", "g", "e", "m">>

\* "amethist"
TOK_AMETHIST ==
  <<"a", "m", "e", "t", "h", "i", "s", "t">>

\* "emerld"
TOK_EMERLD ==
  <<"e", "m", "e", "r", "l", "d">>

\* "preciousness"
TOK_PRECIOUSNESS ==
  <<"p", "r", "e", "c", "i", "o", "u", "s", "n", "e", "s", "s">>

\* "rubyy"
TOK_RUBYY ==
  <<"r", "u", "b", "y", "y">>

\* "ru"
TOK_RU ==
  <<"r", "u">>

---------------------------------------------------------------------------
(* filterProductsWithFuzzy, src/index.js:476-573 *)

\* Array.isArray
isArray(v) == v.type = "array"

Arr(items) == [type |-> "array", items |-> items]

\* products.slice(0, 20)
SLICE_LIMIT == 20

slice(items, end) == SubSeq(items, 1, Min(end, Len(items)))

\* the array that splice(0, end) leaves behind: the removed items are gone
spliceReceiver(items, end) == SubSeq(items, Min(end, Len(items)) + 1, Len(items))

\* the array that slice(0, end) was called on, after the call: slice copies
sliceReceiver(items, end) == items

\* a missing, null or empty description is falsy
hasDescription(p) == "description" \in DOMAIN p /\ p.description # <<>>

\* a variant of the haystack that also holds the tags of the product
searchTextWithTags(p) ==
  LET title       == toLowerCase(p.title)
      description == IF hasDescription(p) THEN toLowerCase(p.description) ELSE <<>>
      tags        == IF "tags" \in DOMAIN p THEN toLowerCase(p.tags) ELSE <<>>
  IN  title \o <<" ">> \o description \o <<" ">> \o tags

\* `${title} ${description}` of lines 492-494
searchText(p) ==
  LET title       == toLowerCase(p.title)
      description == IF hasDescription(p) THEN toLowerCase(p.description) ELSE <<>>
  IN  title \o <<" ">> \o description

\* Math.floor(wordLength * 0.7).  In double arithmetic the product falls just
\* below the integer 7n/10 for n = 90, 170 and 180 (and for no other n below
\* 200), where the floor is one less.
floorTimes07(n) ==
  IF n \in {90, 170, 180} THEN (7 * n) \div 10 - 1 ELSE (7 * n) \div 10

\* the window length with Math.ceil in place of Math.floor
minSubstringLengthCeil(wordLength) == Max(5, (7 * wordLength + 9) \div 10)

\* line 508
minSubstringLength(wordLength) == Max(5, floorTimes07(wordLength))

\* the exact test applied to words longer than 2 characters only
exactMatchLongOnly(text, word) == Len(word) > 2 /\ includes(text, word)

\* lines 498-501: the exact match
exactMatch(text, word) == includes(text, word)

\* lines 505-518: some window of the word occurs in the text
substringMatch(text, word) ==
  LET wordLength == Len(word)
  IN  /\ wordLength > 5
      /\ \E i \in 0..(wordLength - minSubstringLength(wordLength)) :
            includes(text, substring(word, i, i + minSubstringLength(wordLength)))

\* lines 520-533, inside the block of line 505: some word of the text longer
\* than 3 characters is similar enough
similarityMatch(text, word) ==
  LET wordLength == Len(word)
      words      == split(text)
  IN  /\ wordLength > 5
      /\ wordLength > 4
      /\ \E k \in 1..Len(words) :
            /\ Len(words[k]) > 3
            /\ atLeastThreshold(calculateSimilarity(word, words[k]))

\* the callback of searchWords.some, lines 497-537
wordMatches(text, word) ==
  \/ exactMatch(text, word)
  \/ substringMatch(text, word)
  \/ similarityMatch(text, word)

\* Math.floor(wordLength * 0.6) and Math.floor(wordLength * 0.4): in double
\* arithmetic equal to the integer quotients for every n below 200
floorTimes06(n) == (6 * n) \div 10

floorTimes04(n) == (4 * n) \div 10

\* a diagnostic window as long as the whole word
diagnosticMinSubstringLengthWhole(wordLength) == wordLength

\* line 546
diagnosticMinSubstringLength(wordLength) == Max(3, floorTimes06(wordLength))

\* the callback of searchWords.filter, lines 540-561: the word is in the
\* text, or it is longer than 3 characters and one of its windows (cut
\* short by substring at the end of the word) is in the text, or a word of
\* the text longer than 3 characters is similar enough
diagnosticMatch(text, word) ==
  LET wordLength == Len(word)
      words      == split(text)
  IN  \/ includes(text, word)
      \/ /\ wordLength > 3
         /\ \/ \E i \in 0..(wordLength - floorTimes04(wordLength)) :
                  includes(text, substring(word, i,
                                  i + diagnosticMinSubstringLength(wordLength)))
            \/ \E k \in 1..Len(words) :
                  /\ Len(words[k]) > 3
                  /\ atLeastThreshold(calculateSimilarity(word, words[k]))

\* matchedWords of lines 540-561, computed for a product that has a match
matchedWords(p, words) ==
  LET text == searchText(p)
      matched(word) == diagnosticMatch(text, word)
  IN  SelectSeq(words, matched)

\* searchWords.every in place of searchWords.some
hasMatchEvery(p, words) ==
  \A k \in 1..Len(words) : wordMatches(searchText(p), words[k])

\* lines 491-537: hasMatch for product p
hasMatch(p, words) ==
  \E k \in 1..Len(words) : wordMatches(searchText(p), words[k])

\* the filter with the products that match exactly moved to the front
filterProductsRanked(ps, ws) ==
  IF ~isArray(ps) THEN <<>>
  ELSE IF ~isArray(ws) \/ Len(ws.items) = 0 THEN slice(ps.items, SLICE_LIMIT)
  ELSE LET exact(p) == \E k \in 1..Len(ws.items) : exactMatch(searchText(p), ws.items[k])
           fuzzy(p) == hasMatch(p, ws.items) /\ ~exact(p)
       IN  SelectSeq(ps.items, exact) \o SelectSeq(ps.items, fuzzy)

\* the filter without the cap on the fallback for no search words
filterProductsNoCap(ps, ws) ==
  IF ~isArray(ps) THEN <<>>
  ELSE IF ~isArray(ws) \/ Len(ws.items) = 0 THEN ps.items
  ELSE LET keep(p) == hasMatch(p, ws.items)
       IN  SelectSeq(ps.items, keep)

\* the filter that drops the words of 2 characters or fewer before matching
filterProductsDroppingShort(ps, ws) ==
  IF ~isArray(ps) THEN <<>>
  ELSE IF ~isArray(ws) \/ Len(ws.items) = 0 THEN slice(ps.items, SLICE_LIMIT)
  ELSE LET long(w) == Len(w) > 2
           keep(p) == hasMatch(p, SelectSeq(ws.items, long))
       IN  SelectSeq(ps.items, keep)

\* a variant that caps the matches as it caps the no-words listing
filterProductsCapped(ps, ws) ==
  IF ~isArray(ps) THEN <<>>
  ELSE IF ~isArray(ws) \/ Len(ws.items) = 0 THEN slice(ps.items, SLICE_LIMIT)
  ELSE LET keep(p) == hasMatch(p, ws.items)
       IN  slice(SelectSeq(ps.items, keep), SLICE_LIMIT)

\* a variant whose first guard is "if (!products)": an object has nothing to
\* scan and a string is sliced and scanned character by character
filterProductsTruthyGuard(ps, ws) ==
  IF ps.type \in {"null", "undefined"} THEN <<>>
  ELSE LET elements == IF isArray(ps) THEN ps.items
                       ELSE IF ps.type = "string" THEN ps.chars ELSE <<>>
       IN  IF ~isArray(ws) \/ Len(ws.items) = 0 THEN slice(elements, SLICE_LIMIT)
           ELSE LET keep(p) == isArray(ps) /\ hasMatch(p, ws.items)
                IN  SelectSeq(elements, keep)

filterProductsWithFuzzy(ps, ws) ==
  IF ~isArray(ps) THEN <<>>
  ELSE IF ~isArray(ws) \/ Len(ws.items) = 0 THEN slice(ps.items, SLICE_LIMIT)
  ELSE LET keep(p) == hasMatch(p, ws.items)
       IN  SelectSeq(ps.items, keep)

\* the products argument after filterProductsWithFuzzy(ps, ws) returned:
\* slice (line 483) is the only method called on it besides filter, which
\* hands each product to a callback that only reads it (lines 492-568)
productsAfterFilter(ps, ws) ==
  IF ~isArray(ps) THEN ps
  ELSE IF ~isArray(ws) \/ Len(ws.items) = 0
       THEN Arr(sliceReceiver(ps.items, SLICE_LIMIT))
       ELSE ps

---------------------------------------------------------------------------
(* The inputs of Spec *)

\* products as fetchAllProductsFromMySQL builds them (lines 452-460): one
\* whose description is NULL, one with a description and one whose
\* description is the empty string
ProductPool == <<
  [id |-> 1, variants |-> <<>>,
   title |-> AMETHYST],
  [id |-> 2, variants |-> <<>>,
   title |-> RUBYGEM,
   description |-> SEMIPRECIOUS_GEM],
  [id |-> 3, variants |-> <<>>,
   title |-> EMERALD,
   description |-> <<>>]
>>

\* search words: a misspelling found by a shared window ("amethist"), one
\* found by similarity only ("emerld"), a word found by a shared window only
\* ("preciousness"), a 5-letter misspelling ("rubyy") and a 2-letter word
\* that occurs in one title ("ru")
TokenPool == {
  TOK_AMETHIST,
  TOK_EMERLD,
  TOK_PRECIOUSNESS,
  TOK_RUBYY,
  TOK_RU
}

RECURSIVE SeqsOfLen(_, _)
SeqsOfLen(S, n) ==
  IF n = 0 THEN {<<>>}
  ELSE {Append(s, x) : s \in SeqsOfLen(S, n - 1), x \in S}

SeqsUpTo(S, n) == UNION {SeqsOfLen(S, k) : k \in 0..n}

PoolProducts == {ProductPool[k] : k \in 1..Len(ProductPool)}

\* every ordering, with repetition, of up to MaxProducts pool products
ShortCatalogs == SeqsUpTo(PoolProducts, MaxProducts)

\* the catalog of n rows that repeats the pool, every row with its own id
CyclicCatalog(n) ==
  [k \in 1..n |-> [ProductPool[((k - 1) % Len(ProductPool)) + 1] EXCEPT !.id = k]]

LongCatalogs == {CyclicCatalog(n) : n \in SLICE_LIMIT..MaxCatalog}

\* values that are no array: null, undefined, an object and a string
NotArrays ==
  {[type |-> "null"], [type |-> "undefined"], [type |-> "object"],
   [type |-> "string", chars |-> TOK_RU]}

ProductsInputs == {Arr(c) : c \in ShortCatalogs \cup LongCatalogs} \cup NotArrays

SearchWordsInputs ==
  {Arr(ws) : ws \in SeqsUpTo(TokenPool, MaxTokens)} \cup {[type |-> "undefined"]}

---------------------------------------------------------------------------
(* Specification Spec: calls of filterProductsWithFuzzy *)

Init ==
  /\ products \in ProductsInputs
  /\ searchWords \in SearchWordsInputs
  /\ filtered = <<>>
  /\ pc = "input"
  /\ calls = 0
  /\ str1 = <<>>
  /\ str2 = <<>>
  /\ distance = 0
  /\ similarity = <<0, 1>>
  /\ called = {}
  /\ response = <<>>
  /\ CachesUntouched

\* the call filterProductsWithFuzzy(products, searchWords)
Filter ==
  /\ pc = "input"
  /\ filtered' = filterProductsWithFuzzy(products, searchWords)
  /\ products' = productsAfterFilter(products, searchWords)
  /\ pc' = "done"
  /\ calls' = calls + 1
  /\ UNCHANGED <<searchWords, str1, str2, distance, similarity, called,
               response, cacheVars, serviceVars>>

\* a further call on the same catalog, with no search words
FilterAgainNoWords ==
  /\ pc = "done"
  /\ calls < MaxCalls
  /\ searchWords' = Arr(<<>>)
  /\ filtered' = filterProductsWithFuzzy(products, searchWords')
  /\ products' = productsAfterFilter(products, searchWords')
  /\ calls' = calls + 1
  /\ UNCHANGED <<pc, str1, str2, distance, similarity, called,
               response, cacheVars, serviceVars>>

Next == Filter \/ FilterAgainNoWords

Spec == Init /\ [][Next]_vars

---------------------------------------------------------------------------
(* Claims about filterProductsWithFuzzy *)

\* x is an element of the sequence s
InSeq(x, s) == \E k \in 1..Len(s) : s[k] = x

\* r can be had from s by deleting elements
RECURSIVE IsSubsequence(_, _)
IsSubsequence(r, s) ==
  IF r = <<>> THEN TRUE
  ELSE IF s = <<>> THEN FALSE
  ELSE IF Head(r) = Head(s) THEN IsSubsequence(Tail(r), Tail(s))
  ELSE IsSubsequence(r, Tail(s))

\* the elements of the sequence s
Range(s) == {s[k] : k \in 1..Len(s)}

Reverse(s) == [k \in 1..Len(s) |-> s[Len(s) + 1 - k]]

\* the call has returned and was given a catalog and a non-empty word list
FilteredByWords ==
  /\ pc = "done"
  /\ isArray(products)
  /\ isArray(searchWords)
  /\ Len(searchWords.items) > 0

\* C1: with a non-empty token list, every product whose haystack contains some
\* token verbatim is in the output, whatever the token's length.
C1_ExactSubstringSuffices ==
  FilteredByWords =>
    \A i \in 1..Len(products.items) :
      (\E k \in 1..Len(searchWords.items) :
          includes(searchText(products.items[i]), searchWords.items[k]))
        => InSeq(products.items[i], filtered)

\* the 2-letter word "ru" alone finds "Ruby Gemstone"
C1_Witness ==
  /\ FilteredByWords
  /\ searchWords.items = <<TOK_RU>>
  /\ Len(products.items) = 2
  /\ filtered = <<ProductPool[2]>>

\* C2: the output is a subsequence of the catalog: only products of the
\* catalog, none more often than there, in the catalog's order.
C2_OutputIsSubsequence ==
  (pc = "done" /\ isArray(products)) => IsSubsequence(filtered, products.items)

\* a fuzzy match listed before an exact one, as in the catalog, with a product
\* in between left out
C2_Witness ==
  /\ FilteredByWords
  /\ Len(products.items) > SLICE_LIMIT
  /\ searchWords.items = <<TOK_RU, TOK_AMETHIST>>
  /\ Len(filtered) > 2
  /\ filtered[1].title = AMETHYST
  /\ filtered[2].title = RUBYGEM

\* C3: with an empty token list the output is the first min(20, |P|) products
\* of the catalog in their order, whatever calls were made before.
C3_NoWordsFirstTwenty ==
  (/\ pc = "done"
   /\ isArray(products)
   /\ isArray(searchWords)
   /\ Len(searchWords.items) = 0)
    => /\ Len(filtered) = Min(20, Len(products.items))
       /\ \A k \in 1..Len(filtered) : filtered[k] = products.items[k]

\* the second call on a catalog of more than 20 products
C3_Witness ==
  /\ pc = "done"
  /\ calls = 2
  /\ isArray(products)
  /\ searchWords = Arr(<<>>)
  /\ Len(products.items) = 21
  /\ Len(filtered) = 20

\* C4 as stated: appending a token of length 2 or less never changes the
\* output.
C4_ShortTokenIgnored ==
  (FilteredByWords
     /\ Len(searchWords.items[Len(searchWords.items)]) <= 2)
    => filtered = filterProductsWithFuzzy(products,
                    Arr(SubSeq(searchWords.items, 1, Len(searchWords.items) - 1)))

\* C4 as amended: appending a token t of length 2 or less to a non-empty token
\* list T gives exactly the products, in catalog order, that T finds or whose
\* haystack contains t verbatim (so the output is that of T when t occurs in
\* no haystack).
C4_ShortTokenExactOnly ==
  (FilteredByWords
     /\ Len(searchWords.items) >= 2
     /\ Len(searchWords.items[Len(searchWords.items)]) <= 2)
    => LET t       == searchWords.items[Len(searchWords.items)]
           T       == SubSeq(searchWords.items, 1, Len(searchWords.items) - 1)
           byT     == filterProductsWithFuzzy(products, Arr(T))
           keep(p) == InSeq(p, byT) \/ includes(searchText(p), t)
       IN  filtered = SelectSeq(products.items, keep)

\* "emerld" finds Emerald, and the appended "ru" adds Ruby Gemstone
C4_Witness ==
  /\ FilteredByWords
  /\ searchWords.items = <<TOK_EMERLD, TOK_RU>>
  /\ products.items = <<ProductPool[3], ProductPool[2]>>
  /\ filtered = products.items

\* C5: a product is in the output for T1 \o T2 exactly when it is in the
\* output for T1 or in the output for T2 (T1, T2 non-empty); the order of the
\* tokens and repeated tokens do not matter.
C5_LogicalOrAcrossTokens ==
  (FilteredByWords /\ Len(searchWords.items) >= 2) =>
    LET T == searchWords.items
    IN  /\ \A n \in 1..(Len(T) - 1) :
              Range(filtered) =
                Range(filterProductsWithFuzzy(products, Arr(SubSeq(T, 1, n))))
                  \cup Range(filterProductsWithFuzzy(products, Arr(SubSeq(T, n + 1, Len(T)))))
        /\ filtered = filterProductsWithFuzzy(products, Arr(Reverse(T)))

\* two tokens that each find one product of a catalog of two
C5_Witness ==
  /\ FilteredByWords
  /\ searchWords.items = <<TOK_RU, TOK_EMERLD>>
  /\ products.items = <<ProductPool[3], ProductPool[2]>>
  /\ filtered = products.items

\* C6: a token of length n > 5 that is no verbatim substring of the haystack
\* makes the product match whenever one of its windows of length
\* max(5, floor(0.7 n)) occurs in the haystack; a token of length 5 or less is
\* never matched by this layer.
C6_SubstringOverlap ==
  FilteredByWords =>
    \A i \in 1..Len(products.items) : \A k \in 1..Len(searchWords.items) :
      LET p      == products.items[i]
          token  == searchWords.items[k]
          n      == Len(token)
          window == Max(5, (7 * n) \div 10)
      IN  /\ (/\ n > 5
              /\ ~includes(searchText(p), token)
              /\ \E j \in 1..(n - window + 1) :
                    includes(searchText(p), SubSeq(token, j, j + window - 1)))
               => InSeq(p, filtered)
          /\ n <= 5 => ~substringMatch(searchText(p), token)

\* "amethist" finds "Amethyst Round Beads" by the window "ameth"
C6_Witness ==
  /\ FilteredByWords
  /\ searchWords.items = <<TOK_AMETHIST>>
  /\ products.items = <<ProductPool[1]>>
  /\ filtered = <<ProductPool[1]>>
  /\ ~exactMatch(searchText(ProductPool[1]), TOK_AMETHIST)
  /\ substringMatch(searchText(ProductPool[1]), TOK_AMETHIST)

\* C7: a token longer than 4 characters that neither the exact nor the
\* substring-overlap layer matches makes the product match if some haystack
\* word longer than 3 characters has similarity >= 0.6 with it, that is
\* 5 * (L - d) >= 3 * L.
C7_SimilarityFromFiveChars ==
  FilteredByWords =>
    \A i \in 1..Len(products.items) : \A k \in 1..Len(searchWords.items) :
      LET p     == products.items[i]
          token == searchWords.items[k]
          words == split(searchText(p))
      IN  (/\ Len(token) > 4
           /\ ~exactMatch(searchText(p), token)
           /\ ~substringMatch(searchText(p), token)
           /\ \E m \in 1..Len(words) :
                 /\ Len(words[m]) > 3
                 /\ LET L == Max(Len(token), Len(words[m]))
                        d == levenshteinDistance(token, words[m])
                    IN  5 * (L - d) >= 3 * L)
            => InSeq(p, filtered)

---------------------------------------------------------------------------
(* Claims about the similarity scorer *)

\* C8: calculateSimilarity(x, x) is 1.0 for every non-empty x, and
\* calculateSimilarity("", "") is 1.0 (no division by zero: the denominator
\* of the returned fraction is never 0).
C8_SelfSimilarityIsOne ==
  "calculateSimilarity" \in called =>
    /\ similarity[2] # 0
    /\ str1 = str2 => similarity[1] = similarity[2]

C8_Witness ==
  /\ "calculateSimilarity" \in called
  /\ str1 = str2
  /\ Len(str1) = MaxStrLen

C8_WitnessEmpty ==
  /\ "calculateSimilarity" \in called
  /\ str1 = <<>>
  /\ str2 = <<>>

\* C9: calculateSimilarity(a, b) lies in [0, 1], because the edit distance is
\* between 0 and max(len(a), len(b)).
C9_SimilarityBounded ==
  /\ "levenshteinDistance" \in called =>
       /\ 0 <= distance
       /\ distance <= Max(Len(str1), Len(str2))
  /\ "calculateSimilarity" \in called =>
       /\ similarity[2] > 0
       /\ 0 <= similarity[1]
       /\ similarity[1] <= similarity[2]

\* both ends of the interval are reached: similarity 0 for two strings of
\* full length without a common character position
C9_Witness ==
  /\ "calculateSimilarity" \in called
  /\ "levenshteinDistance" \in called
  /\ Len(str1) = MaxStrLen
  /\ similarity[1] = 0
  /\ distance = MaxStrLen

\* the classic edit distance, by the reference recurrence on suffixes
RECURSIVE EditDistance(_, _)
EditDistance(a, b) ==
  IF a = <<>> THEN Len(b)
  ELSE IF b = <<>> THEN Len(a)
  ELSE Min3(EditDistance(Tail(a), b) + 1,
            EditDistance(a, Tail(b)) + 1,
            EditDistance(Tail(a), Tail(b)) + (IF Head(a) = Head(b) THEN 0 ELSE 1))

\* C10: levenshteinDistance(a, b) is the classic edit distance,
\* calculateSimilarity(a, b) is (max(len) - distance) / max(len), and both
\* are the same when a and b are swapped.
C10_ClassicEditDistance ==
  /\ "levenshteinDistance" \in called =>
       /\ distance = EditDistance(str1, str2)
       /\ distance = levenshteinDistance(str2, str1)
  /\ ("calculateSimilarity" \in called /\ Max(Len(str1), Len(str2)) > 0) =>
       /\ similarity = <<Max(Len(str1), Len(str2)) - EditDistance(str1, str2),
                         Max(Len(str1), Len(str2))>>
       /\ similarity = calculateSimilarity(str2, str1)

\* a pair of different lengths and letters that needs a substitution and an
\* insertion
C10_Witness ==
  /\ "levenshteinDistance" \in called
  /\ "calculateSimilarity" \in called
  /\ Len(str1) < Len(str2)
  /\ Len(str1) >= 2
  /\ distance = 2
  /\ str1[1] # str2[1]

---------------------------------------------------------------------------
(* formatProductResponse (lines 633-670).  A text is a sequence of          *)
(* fragments: a literal piece of a template is one fragment, an            *)
(* interpolated string or number contributes its characters.  The          *)
(* response is the sequence of its lines, each a record with its kind and  *)
(* the texts interpolated into it.  A number is held in thousandths.       *)

DigitChars == <<"0", "1", "2", "3", "4", "5", "6", "7", "8", "9">>

\* the value of a digit character
DigitOf == [c \in {DigitChars[k] : k \in 1..10} |->
              (CHOOSE k \in 1..10 : DigitChars[k] = c) - 1]

isDigit(c) == c \in DOMAIN DigitOf

\* String(n) of an integer: what a template literal interpolates
RECURSIVE toStringNat(_)
toStringNat(n) ==
  IF n < 10 THEN <<DigitChars[n + 1]>>
  ELSE Append(toStringNat(n \div 10), DigitChars[(n % 10) + 1])

toString(n) == IF n < 0 THEN <<"-">> \o toStringNat(0 - n) ELSE toStringNat(n)

\* how many digit characters s has from position k on
RECURSIVE digitRun(_, _)
digitRun(s, k) ==
  IF k > Len(s) \/ ~isDigit(s[k]) THEN 0 ELSE 1 + digitRun(s, k + 1)

\* the number that the digits s[from..to] spell
RECURSIVE digitsValue(_, _, _)
digitsValue(s, from, to) ==
  IF to < from THEN 0
  ELSE 10 * digitsValue(s, from, to - 1) + DigitOf[s[to]]

NaN == [nan |-> TRUE]

\* parseFloat: a number is itself; of a string the longest leading decimal
\* literal (digits, then optionally a point and digits) is read, and a
\* string that starts with none gives NaN.  Digits after the third decimal
\* are not held.
parseFloat(v) ==
  IF v.type = "number" THEN [nan |-> FALSE, mills |-> v.mills]
  ELSE IF v.type # "string" THEN NaN
  ELSE LET s      == v.chars
           n1     == digitRun(s, 1)
           hasDot == n1 < Len(s) /\ s[n1 + 1] = "."
           n2     == IF hasDot THEN Min(3, digitRun(s, n1 + 2)) ELSE 0
           frac   == digitsValue(s, n1 + 2, n1 + 1 + n2)
           scale  == IF n2 = 0 THEN 1000 ELSE IF n2 = 1 THEN 100
                     ELSE IF n2 = 2 THEN 10 ELSE 1
       IN  IF n1 = 0 /\ n2 = 0 THEN NaN
           ELSE [nan |-> FALSE,
                 mills |-> 1000 * digitsValue(s, 1, n1) + scale * frac]

\* Number.prototype.toFixed(2): the nearest hundredth, two decimals always
toFixed2(x) ==
  IF x.nan THEN <<"N", "a", "N">>
  ELSE LET cents == (x.mills + 5) \div 10
           c     == cents % 100
       IN  toStringNat(cents \div 100) \o <<".">>
             \o <<DigitChars[(c \div 10) + 1], DigitChars[(c % 10) + 1]>>

\* whether a field holds a value at all (neither undefined nor null)
present(r, f) == f \in DOMAIN r /\ r[f].type # "null"

\* JavaScript truthiness of a field: undefined, null, 0, NaN and "" are falsy
truthy(r, f) ==
  /\ present(r, f)
  /\ r[f].type = "number" => r[f].mills # 0
  /\ r[f].type = "string" => r[f].chars # <<>>

\* the three literals of formatProductResponse
DISPLAY_LIMIT == 20
MORE_LIMIT == 20
VARIANT_LIMIT == 3

\* searchWords.join(', ')
RECURSIVE join(_)
join(ws) ==
  IF Len(ws) = 0 THEN <<>>
  ELSE IF Len(ws) = 1 THEN ws[1]
  ELSE join(SubSeq(ws, 1, Len(ws) - 1)) \o <<", ">> \o ws[Len(ws)]

\* whether a string-valued field is there and not empty
hasText(r, f) == f \in DOMAIN r /\ r[f] # <<>>

\* variant.price ? `$${parseFloat(variant.price).toFixed(2)}` : 'Price on request'
priceText(variant) ==
  IF truthy(variant, "price")
  THEN <<"$">> \o toFixed2(parseFloat(variant.price))
  ELSE <<"Price on request">>

\* a variant whose stock annotation follows available_for_sale
inventoryTextBySaleFlag(variant) ==
  IF "available_for_sale" \in DOMAIN variant /\ variant.available_for_sale
  THEN <<"(In Stock - ">>
         \o (IF present(variant, "inventory_quantity")
             THEN toString(variant.inventory_quantity.mills \div 1000)
             ELSE <<"0">>)
         \o <<" left)">>
  ELSE <<"(Out of Stock)">>

\* variant.inventory_quantity > 0 ? `(In Stock - ${q} left)` : '(Out of Stock)'
\* (undefined > 0 and null > 0 are false)
inventoryText(variant) ==
  IF present(variant, "inventory_quantity")
     /\ variant.inventory_quantity.mills > 0
  THEN <<"(In Stock - ">>
         \o toString(variant.inventory_quantity.mills \div 1000)
         \o <<" left)">>
  ELSE <<"(Out of Stock)">>

\* `   • ${variant.title || 'Standard'}: ${price} ${inventory}\n`
variantLine(variant) ==
  [kind      |-> "variant",
   title     |-> IF hasText(variant, "title") THEN variant.title
                 ELSE <<"Standard">>,
   price     |-> priceText(variant),
   inventory |-> inventoryText(variant)]

\* a variant of the forEach body that lists every variant of the product
productLinesAllVariants(product) ==
  <<[kind |-> "title", title |-> product.title]>>
    \o (IF hasText(product, "image")
        THEN <<[kind |-> "image", url |-> product.image]>> ELSE <<>>)
    \o [k \in 1..Len(product.variants) |-> variantLine(product.variants[k])]
    \o <<[kind |-> "blank"]>>

\* the body of products.slice(0, 20).forEach: the title line, the image
\* line, the lines of the first three variants and an empty line
productLines(product) ==
  <<[kind |-> "title", title |-> product.title]>>
    \o (IF hasText(product, "image")
        THEN <<[kind |-> "image", url |-> product.image]>> ELSE <<>>)
    \o (IF "variants" \in DOMAIN product /\ Len(product.variants) > 0
        THEN LET variants == slice(product.variants, VARIANT_LIMIT)
             IN  [k \in 1..Len(variants) |-> variantLine(variants[k])]
        ELSE <<>>)
    \o <<[kind |-> "blank"]>>

\* the lines of the products items[1..n], in order
RECURSIVE forEachProduct(_, _)
forEachProduct(items, n) ==
  IF n = 0 THEN <<>>
  ELSE forEachProduct(items, n - 1) \o productLines(items[n])

\* `Found ${products.length} product(s) for you:\n\n`
headerLines(n) ==
  <<[kind |-> "header",
     text |-> <<"Found ">> \o toString(n) \o <<" product(s) for you:">>],
    [kind |-> "blank"]>>

\* a variant of the suffix that counts from the number of products shown
moreLinesFromShown(n) ==
  IF n >= MORE_LIMIT
  THEN <<[kind |-> "more",
          text |-> <<"... and ">> \o toString(n - Min(n, DISPLAY_LIMIT))
                     \o <<" more products available!">>]>>
  ELSE <<>>

\* if (products.length > 20) `... and ${products.length - 20} more products available!\n`
moreLines(n) ==
  IF n > MORE_LIMIT
  THEN <<[kind |-> "more",
          text |-> <<"... and ">> \o toString(n - MORE_LIMIT)
                     \o <<" more products available!">>]>>
  ELSE <<>>

\* the message of lines 635-636
notFoundLines(ws) ==
  LET quoted == IF isArray(ws) THEN join(ws.items) ELSE <<"your search">>
  IN  <<[kind |-> "notFound",
         text |-> <<"I couldn't find any products matching \"">> \o quoted
                    \o <<"\". Please try different keywords or ask me to show you our available gemstone beads and jewelry supplies.">>]>>

closingLines ==
  <<[kind |-> "closing",
     text |-> <<"Would you like more details about any of these products, or shall I help you with something else?">>]>>

\* a product after its lines were written: slice (line 650) is the only
\* method called on its variants besides forEach, whose callback only reads
productAfterLines(product) ==
  IF "variants" \in DOMAIN product /\ Len(product.variants) > 0
  THEN [product EXCEPT !.variants = sliceReceiver(product.variants, VARIANT_LIMIT)]
  ELSE product

\* the products argument after formatProductResponse(ps, ws) returned
productsAfterFormat(ps) ==
  IF ~isArray(ps) \/ Len(ps.items) = 0 THEN ps
  ELSE LET items == sliceReceiver(ps.items, DISPLAY_LIMIT)
       IN  Arr([k \in 1..Len(items) |->
                  IF k <= DISPLAY_LIMIT THEN productAfterLines(items[k])
                  ELSE items[k]])

formatProductResponse(ps, ws) ==
  IF ~isArray(ps) \/ Len(ps.items) = 0 THEN notFoundLines(ws)
  ELSE headerLines(Len(ps.items))
         \o forEachProduct(ps.items, Len(slice(ps.items, DISPLAY_LIMIT)))
         \o moreLines(Len(ps.items))
         \o closingLines

---------------------------------------------------------------------------
(* Specification SpecFormat: the filter and format steps of                *)
(* queryMySQLProducts (lines 375-376, 396-397) and direct calls of the     *)
(* exported formatProductResponse (line 712)                               *)

\* largest catalog, and longest search word list, of SpecFormat
MaxFormatCatalog == 57
MaxFormatTokens == 2

TOK_RED == <<"r", "e", "d">>

Num(mills) == [type |-> "number", mills |-> mills]
Str(chars) == [type |-> "string", chars |-> chars]

\* variant rows as lines 443-448 build them: the price is a number, a
\* decimal string, a string that is no number, zero, null or missing; the
\* quantity is positive, zero, negative, null or missing
VARIANT_SMALL ==
  [title |-> <<"S", "m", "a", "l", "l">>, price |-> Num(12500),
   inventory_quantity |-> Num(12000), available_for_sale |-> TRUE]
VARIANT_SOLD ==
  [title |-> <<"8", "m", "m">>, price |-> Str(<<"9", "9", ".", "9", "9">>),
   inventory_quantity |-> Num(0), available_for_sale |-> TRUE]
VARIANT_UNTITLED ==
  [price |-> [type |-> "null"], inventory_quantity |-> Num(0 - 1000),
   available_for_sale |-> FALSE]
VARIANT_TEXT_PRICE ==
  [title |-> <<"L">>, price |-> Str(<<"a", "b", "c">>),
   available_for_sale |-> TRUE]
VARIANT_EXTRA ==
  [title |-> <<"X", "L">>, price |-> Num(1000),
   inventory_quantity |-> Num(1000), available_for_sale |-> TRUE]
VARIANT_FREE ==
  [title |-> <<"F">>, price |-> Num(0),
   inventory_quantity |-> Num(12000), available_for_sale |-> FALSE]
VARIANT_ROUNDED ==
  [title |-> <<"R">>, price |-> Str(<<"7", ".", "1", "2", "6">>),
   inventory_quantity |-> [type |-> "null"], available_for_sale |-> TRUE]
VARIANT_ZERO_TEXT ==
  [title |-> <<"Z">>, price |-> Str(<<"0", ".", "0", "0">>),
   inventory_quantity |-> Num(0), available_for_sale |-> FALSE]

\* products as lines 452-460 build them.  The first two have the same
\* title and no description text, and differ in everything else.
FormatPool == <<
  [id |-> 1, title |-> RUBYGEM,
   tags |-> <<"r", "u", "b", "y", ",", "r", "e", "d">>,
   image |-> <<"r", ".", "j", "p", "g">>, imageAlt |-> <<"r">>,
   variants |-> <<VARIANT_SMALL>>],
  [id |-> 2, title |-> RUBYGEM, description |-> <<>>,
   tags |-> <<"g", "e", "m">>,
   variants |-> <<VARIANT_SOLD, VARIANT_UNTITLED, VARIANT_TEXT_PRICE,
                  VARIANT_EXTRA>>],
  [id |-> 3, title |-> EMERALD,
   tags |-> <<"g", "r", "e", "e", "n">>,
   variants |-> <<VARIANT_FREE, VARIANT_ROUNDED, VARIANT_ZERO_TEXT>>],
  [id |-> 4, title |-> AMETHYST, description |-> SEMIPRECIOUS_GEM,
   variants |-> <<>>]
>>

\* the catalog of n rows that repeats the first `period` products of the
\* pool, every row with its own id
FormatCatalog(n, period) ==
  [k \in 1..n |-> [FormatPool[((k - 1) % period) + 1] EXCEPT !.id = k]]

\* catalog lengths: short ones, those around the display limit, a long one
FormatLengths ==
  (0..3) \cup ((DISPLAY_LIMIT - 1)..(DISPLAY_LIMIT + 1)) \cup {MaxFormatCatalog}

\* catalogs of Ruby products only (period 2) and of all four products
FormatCatalogs ==
  {FormatCatalog(n, period) : n \in FormatLengths, period \in {2, Len(FormatPool)}}

FormatProductsInputs == {Arr(c) : c \in FormatCatalogs} \cup NotArrays

FormatTokenPool == {TOK_RU, TOK_RUBYY, TOK_RED}

FormatWordsInputs ==
  {Arr(ws) : ws \in SeqsUpTo(FormatTokenPool, MaxFormatTokens)}
    \cup {[type |-> "undefined"]}

InitFormat ==
  /\ products \in FormatProductsInputs
  /\ searchWords \in FormatWordsInputs
  /\ filtered = <<>>
  /\ pc = "input"
  /\ calls = 0
  /\ str1 = <<>>
  /\ str2 = <<>>
  /\ distance = 0
  /\ similarity = <<0, 1>>
  /\ called = {}
  /\ response = <<>>
  /\ CachesUntouched

\* formatProductResponse(filteredProducts, searchWords), lines 376 and 397
Format ==
  /\ pc = "done"
  /\ response' = formatProductResponse(Arr(filtered), searchWords)
  /\ filtered' = productsAfterFormat(Arr(filtered)).items
  /\ pc' = "formatted"
  /\ UNCHANGED <<products, searchWords, calls, str1, str2, distance,
                 similarity, called, cacheVars, serviceVars>>

\* a direct call formatProductResponse(products, searchWords)
FormatDirect ==
  /\ pc = "input"
  /\ response' = formatProductResponse(products, searchWords)
  /\ products' = productsAfterFormat(products)
  /\ pc' = "direct"
  /\ UNCHANGED <<searchWords, filtered, calls, str1, str2, distance,
                 similarity, called, cacheVars, serviceVars>>

NextFormat == Filter \/ Format \/ FormatDirect

SpecFormat == InitFormat /\ [][NextFormat]_vars

---------------------------------------------------------------------------
\* C17: when the products argument is not an array (null, undefined, an
\* object, a string), filterProductsWithFuzzy returns the empty array, for
\* every search word list, the empty and the missing one included
C17_NotArrayGivesEmpty ==
  (pc = "done" /\ ~isArray(products)) => filtered = <<>>

\* a string was handed in as products, with no search words, and the call
\* returned the empty array
C17_Witness ==
  /\ pc = "done"
  /\ products.type = "string"
  /\ isArray(searchWords) /\ searchWords.items = <<>>
  /\ filtered = <<>>

---------------------------------------------------------------------------
\* filterProductsWithFuzzy has returned (and formatProductResponse may have
\* been called on what it returned)
FilterReturned == pc \in {"done", "formatted"}

\* C11: with a non-empty word list filterProductsWithFuzzy applies no cap:
\* it returns as many products as the catalog has matching products, so
\* more than 20 when more than 20 match
C11_NoCapWithWords ==
  (FilterReturned /\ isArray(products) /\ isArray(searchWords)
     /\ Len(searchWords.items) > 0)
  => Len(filtered) =
       Cardinality({k \in 1..Len(products.items) :
                      hasMatch(products.items[k], searchWords.items)})

\* the catalog of 57 Ruby products was searched for "ru" and all 57 came back
C11_Witness ==
  /\ pc = "done"
  /\ isArray(products) /\ Len(products.items) = 57
  /\ isArray(searchWords) /\ searchWords.items = <<TOK_RU>>
  /\ Len(filtered) = 57

---------------------------------------------------------------------------
\* formatProductResponse has returned
FormatReturned == pc \in {"formatted", "direct"}

\* the product list that the formatProductResponse call was given, as a
\* sequence (empty when the argument was no array)
Formatted ==
  IF pc = "formatted" THEN filtered
  ELSE IF isArray(products) THEN products.items ELSE <<>>

\* the positions of the lines of a kind, in order
PositionsOf(lines, kind) ==
  LET isKind(i) == lines[i].kind = kind
  IN  SelectSeq([i \in 1..Len(lines) |-> i], isKind)

\* the variant lines between the k-th title line and the next title line
BlockVariants(lines, k) ==
  LET tp        == PositionsOf(lines, "title")
      last      == IF k < Len(tp) THEN tp[k + 1] - 1 ELSE Len(lines)
      isVariant(l) == l.kind = "variant"
  IN  SelectSeq(SubSeq(lines, tp[k] + 1, last), isVariant)

\* the name a variant is listed under
ListedTitle(variant) ==
  IF "title" \in DOMAIN variant /\ variant.title # <<>> THEN variant.title
  ELSE <<"Standard">>

\* C12: the output of formatProductResponse has the title lines of exactly
\* the first min(20, N) products, in input order, and under each of them the
\* lines of exactly that product's first min(3, number of variants)
\* variants, in order
C12_DisplayCaps ==
  (FormatReturned /\ Len(Formatted) > 0)
  => LET tp    == PositionsOf(response, "title")
         shown == Min(20, Len(Formatted))
     IN  /\ Len(tp) = shown
         /\ Len(PositionsOf(response, "variant")) <= 3 * shown
         /\ \A k \in 1..shown :
              LET product == Formatted[k]
                  vs      == BlockVariants(response, k)
                  n       == Min(3, Len(product.variants))
              IN  /\ response[tp[k]].title = product.title
                  /\ Len(vs) = n
                  /\ \A j \in 1..n : vs[j].title = ListedTitle(product.variants[j])

\* 57 products were formatted, 20 are listed, and a listed product with four
\* variants has three variant lines
C12_Witness ==
  /\ FormatReturned
  /\ Len(Formatted) = 57
  /\ Len(PositionsOf(response, "title")) = 20
  /\ \E k \in 1..20 :
       /\ Len(Formatted[k].variants) = 4
       /\ Len(BlockVariants(response, k)) = 3

---------------------------------------------------------------------------
\* the number that a header or suffix text reports: the digits between its
\* first and its last fragment, read back
Reported(text) ==
  LET digits == SubSeq(text, 2, Len(text) - 1)
  IN  digitsValue(digits, 1, Len(digits))

\* C13: for a non-empty list of N products the header reads "Found N
\* product(s) for you:" with the full N, the "... and N-20 more products
\* available!" line is there if and only if N > 20, and the products listed
\* plus the remainder reported make N
C13_FullCountAndRemainder ==
  (FormatReturned /\ Len(Formatted) > 0)
  => LET N      == Len(Formatted)
         hp     == PositionsOf(response, "header")
         mp     == PositionsOf(response, "more")
         listed == Len(PositionsOf(response, "title"))
     IN  /\ hp = <<1>>
         /\ LET text == response[1].text
            IN  /\ text[1] = "Found "
                /\ text[Len(text)] = " product(s) for you:"
                /\ Len(text) > 2
                /\ \A k \in 2..(Len(text) - 1) : isDigit(text[k])
                /\ Reported(text) = N
         /\ Len(mp) = (IF N > 20 THEN 1 ELSE 0)
         /\ N > 20 =>
              LET text == response[mp[1]].text
              IN  /\ mp[1] = Len(response) - 1
                  /\ text[1] = "... and "
                  /\ text[Len(text)] = " more products available!"
                  /\ \A k \in 2..(Len(text) - 1) : isDigit(text[k])
                  /\ Reported(text) = N - 20
                  /\ listed + Reported(text) = N
         /\ N <= 20 => listed = N

\* 57 products were formatted: the header says 57 and the suffix says 37
C13_Witness ==
  /\ FormatReturned
  /\ Len(Formatted) = 57
  /\ response[1].text = <<"Found ", "5", "7", " product(s) for you:">>
  /\ \E k \in 1..Len(response) :
       /\ response[k].kind = "more"
       /\ response[k].text = <<"... and ", "3", "7", " more products available!">>

---------------------------------------------------------------------------
\* the kinds of line of a response
KindsOf(lines) == {lines[k].kind : k \in 1..Len(lines)}

\* the tokens joined by ", ", or 'your search' when there is none to join
QuotedSearch ==
  IF isArray(searchWords) /\ Len(searchWords.items) > 0
  THEN join(searchWords.items)
  ELSE <<"your search">>

\* C14: when the product list is empty or no array, the result is the
\* not-found message: it begins with "I couldn't find any products
\* matching", quotes the tokens joined by ", ", or 'your search' when there
\* are no tokens to join, and has no header, product line or suffix
C14_NotFoundMessage ==
  (FormatReturned /\ Len(Formatted) = 0)
  => /\ KindsOf(response) = {"notFound"}
     /\ Len(response) = 1
     /\ LET text == response[1].text
        IN  /\ text[1] = "I couldn't find any products matching \""
            /\ SubSeq(text, 2, Len(text) - 1) = QuotedSearch

\* the displayed variants: <<k, j>> is the j-th variant of the k-th product
ShownVariants ==
  IF ~FormatReturned THEN {}
  ELSE {kj \in (1..Min(20, Len(Formatted))) \X (1..3) :
          kj[2] <= Len(Formatted[kj[1]].variants)}

VariantAt(kj) == Formatted[kj[1]].variants[kj[2]]

LineAt(kj) == BlockVariants(response, kj[1])[kj[2]]

\* the inventory_quantity of a variant, 0 when it has none
QuantityOf(variant) ==
  IF "inventory_quantity" \in DOMAIN variant
     /\ variant.inventory_quantity.type = "number"
  THEN variant.inventory_quantity.mills \div 1000
  ELSE 0

\* C15: every displayed variant is annotated "(In Stock - q left)" exactly
\* when its inventory_quantity q is greater than 0 and "(Out of Stock)"
\* otherwise (zero, negative, missing), the same whether available_for_sale
\* is true or false
C15_StockAnnotation ==
  /\ \A kj \in ShownVariants :
       LET q    == QuantityOf(VariantAt(kj))
           text == LineAt(kj).inventory
       IN  IF q > 0
           THEN /\ text[1] = "(In Stock - "
                /\ text[Len(text)] = " left)"
                /\ Len(text) > 2
                /\ \A k \in 2..(Len(text) - 1) : isDigit(text[k])
                /\ Reported(text) = q
           ELSE text = <<"(Out of Stock)">>
  /\ \A kj1 \in ShownVariants, kj2 \in ShownVariants :
       QuantityOf(VariantAt(kj1)) = QuantityOf(VariantAt(kj2))
         => LineAt(kj1).inventory = LineAt(kj2).inventory

\* two displayed variants have 12 in stock, one for sale and one not, and
\* both read "(In Stock - 12 left)"; one with a negative quantity and one
\* with none read "(Out of Stock)"
C15_Witness ==
  /\ \E kj1 \in ShownVariants, kj2 \in ShownVariants :
       /\ QuantityOf(VariantAt(kj1)) = 12
       /\ QuantityOf(VariantAt(kj2)) = 12
       /\ VariantAt(kj1).available_for_sale
       /\ ~VariantAt(kj2).available_for_sale
       /\ LineAt(kj1).inventory = <<"(In Stock - ", "1", "2", " left)">>
       /\ LineAt(kj2).inventory = <<"(In Stock - ", "1", "2", " left)">>
  /\ \E kj \in ShownVariants :
       /\ QuantityOf(VariantAt(kj)) < 0
       /\ LineAt(kj).inventory = <<"(Out of Stock)">>
  /\ \E kj \in ShownVariants :
       /\ "inventory_quantity" \notin DOMAIN VariantAt(kj)
       /\ LineAt(kj).inventory = <<"(Out of Stock)">>

\* whether a variant has a price that parses as a number
HasNumericPrice(variant) ==
  /\ "price" \in DOMAIN variant
  /\ variant.price.type \in {"number", "string"}
  /\ ~parseFloat(variant.price).nan

\* C16: a displayed variant whose price is absent or does not parse as a
\* number reads "Price on request", and every other one reads "$" and the
\* amount with two decimals
C16_PriceRendering ==
  \A kj \in ShownVariants :
    LET text == LineAt(kj).price
    IN  IF HasNumericPrice(VariantAt(kj))
        THEN /\ text[1] = "$"
             /\ Len(text) >= 5
             /\ text[Len(text) - 2] = "."
             /\ \A k \in (2..Len(text)) \ {Len(text) - 2} : isDigit(text[k])
        ELSE text = <<"Price on request">>

---------------------------------------------------------------------------
\* the description of a product, the empty string when it has none
DescriptionOf(p) == IF "description" \in DOMAIN p THEN p.description ELSE <<>>

\* two rows of the catalog with the same title and description that differ
\* in id, tags, image and variants
Twins(i, j) ==
  LET a == products.items[i]
      b == products.items[j]
  IN  /\ a.title = b.title
      /\ DescriptionOf(a) = DescriptionOf(b)

\* C18: whether a product matches depends on its title and description
\* only: two products of the catalog with the same title and the same
\* description (none counting as the empty one) are both returned or both
\* left out, for every non-empty word list, whatever their other fields
C18_MatchReadsTitleAndDescription ==
  (FilterReturned /\ isArray(products) /\ isArray(searchWords)
     /\ Len(searchWords.items) > 0)
  => \A i \in 1..Len(products.items), j \in 1..Len(products.items) :
       Twins(i, j) => (InSeq(products.items[i], filtered)
                         <=> InSeq(products.items[j], filtered))

\* the word "red" is in the tags of the first of two Ruby twins only, which
\* differ in tags, image and variants and of which one has no description:
\* neither is returned; the word "ru" returns both
C18_Witness ==
  /\ FilterReturned /\ isArray(products) /\ isArray(searchWords)
  /\ Len(products.items) >= 2
  /\ Twins(1, 2)
  /\ "description" \notin DOMAIN products.items[1]
  /\ "description" \in DOMAIN products.items[2]
  /\ products.items[1].tags # products.items[2].tags
  /\ products.items[1].variants # products.items[2].variants
  /\ "image" \in DOMAIN products.items[1]
  /\ "image" \notin DOMAIN products.items[2]
  /\ \/ /\ searchWords.items = <<TOK_RED>>
        /\ filtered = <<>>
     \/ /\ searchWords.items = <<TOK_RU>>
        /\ Len(products.items) = 2
        /\ filtered = products.items

---------------------------------------------------------------------------
\* C19: a call of filterProductsWithFuzzy or formatProductResponse leaves
\* its arguments and the module-level caches as they were: the products
\* array with every product and variant, the word list, the list handed on
\* to the formatter, mysqlCache and gemstoneCache
C19_CallsLeaveArgumentsAndCaches ==
  [][/\ products' = products
     /\ searchWords' = searchWords
     /\ pc = "done" => filtered' = filtered
     /\ mysqlCache' = mysqlCache
     /\ gemstoneCache' = gemstoneCache]_vars

\* the catalog of 57 rows went through both calls with no search words: 20
\* products were listed, a product with four variants among them, and the
\* catalog still has its 57 rows and the product its four variants
C19_Witness ==
  /\ pc = "formatted"
  /\ isArray(searchWords) /\ searchWords.items = <<>>
  /\ isArray(products) /\ Len(products.items) = 57
  /\ Len(filtered) = 20
  /\ Len(PositionsOf(response, "title")) = 20
  /\ Len(filtered[2].variants) = 4
  /\ Len(BlockVariants(response, 2)) = 3
  /\ mysqlCache = InitialMysqlCache
  /\ gemstoneCache = InitialGemstoneCache

---------------------------------------------------------------------------
(* Specification SpecCache: concurrent calls of queryMySQLProducts          *)
(* (lines 370-404) against the module-level mysqlCache, while the sync job *)
(* commits new revisions of the catalog and time passes.  Each action is   *)
(* the code between two awaits, which Node.js runs without interruption.   *)
(* An array is a position of heap; mysqlCache.data holds a reference.      *)

\* requests, catalog revisions and clock steps of the model
MaxRequests == 2
MaxRevisions == 2
MaxTicks == 1

\* CACHE_DURATION = 5 * 60 * 1000 ms, in minutes
CACHE_DURATION == 5

Requests == 1..MaxRequests

Ref(k) == [type |-> "ref", at |-> k]

\* the rows of the products table at revision v (the first query of
\* fetchAllProductsFromMySQL, ORDER BY title): every commit of the sync job
\* rewrites the descriptions
ProductRows(v) ==
  <<[id |-> 1, title |-> EMERALD,
     description |-> <<"r", "e", "v", " ">> \o toString(v)],
    [id |-> 2, title |-> RUBYGEM,
     description |-> <<"r", "e", "v", " ">> \o toString(v)]>>

\* the rows of product_variants of a product at revision v (the second query)
VariantRows(id, v) ==
  IF id = 1 THEN <<>>
  ELSE <<[title |-> <<"8", "m", "m">>, price |-> Num(1000 * v),
          inventory_quantity |-> Num(1000 * v), available_for_sale |-> TRUE]>>

\* allProducts of lines 452-460: the product rows with their variants
buildAllProducts(productRows, v) ==
  [k \in 1..Len(productRows) |->
     [id          |-> productRows[k].id,
      title       |-> productRows[k].title,
      description |-> productRows[k].description,
      variants    |-> VariantRows(productRows[k].id, v)]]

\* a refresh that also writes the new rows into the array the cache holds
heapAfterFetchInPlace(h, cache, allProducts) ==
  IF cache.data.type = "ref"
  THEN Append([h EXCEPT ![cache.data.at] = allProducts], allProducts)
  ELSE Append(h, allProducts)

\* the arrays after a fetch: productRows.map (line 452) builds a new array,
\* and line 390 makes mysqlCache.data refer to it; no array is written to
heapAfterFetch(h, cache, allProducts) == Append(h, allProducts)

\* mysqlCache.data && (now - mysqlCache.timestamp) < CACHE_DURATION
\* the freshness test with the boundary included
cacheIsFreshInclusive(cache, now) ==
  cache.data.type = "ref" /\ (now - cache.timestamp) <= CACHE_DURATION

cacheIsFresh(cache, now) ==
  cache.data.type = "ref" /\ (now - cache.timestamp) < CACHE_DURATION

CacheWordLists == {Arr(<<TOK_RU>>), Arr(<<>>)}

IdleRequest ==
  [pc |-> "idle", now |-> 0, words |-> Arr(<<>>), productRows |-> <<>>,
   data |-> [type |-> "null"], filteredProducts |-> <<>>, responseText |-> <<>>]

InitCache ==
  /\ mysqlCache = InitialMysqlCache
  /\ gemstoneCache = InitialGemstoneCache
  /\ heap = <<>>
  /\ db = 1
  /\ requests = [r \in Requests |-> IdleRequest]
  /\ clock = 0
  /\ storedAt = 0
  /\ hook = IdleHook
  /\ sync = IdleSync
  /\ tables = InitialTables
  /\ products = Arr(<<>>)
  /\ searchWords = Arr(<<>>)
  /\ filtered = <<>>
  /\ pc = "input"
  /\ calls = 0
  /\ str1 = <<>>
  /\ str2 = <<>>
  /\ distance = 0
  /\ similarity = <<0, 1>>
  /\ called = {}
  /\ response = <<>>

notCacheVars ==
  <<products, searchWords, filtered, pc, calls, str1, str2, distance,
    similarity, called, response, serviceVars>>

\* time passes: the clock of the model moves in steps of CACHE_DURATION, so
\* that what was cached before the step has expired after it
Tick ==
  /\ clock < MaxTicks * CACHE_DURATION
  /\ clock' = clock + CACHE_DURATION
  /\ UNCHANGED <<mysqlCache, gemstoneCache, heap, db, requests, storedAt, notCacheVars>>

\* the sync job commits a new revision of the catalog
CatalogUpdate ==
  /\ db < MaxRevisions
  /\ db' = db + 1
  /\ UNCHANGED <<mysqlCache, gemstoneCache, heap, clock, requests, storedAt, notCacheVars>>

\* the filter and format pass over the array at reference ref (lines
\* 375-378 and 396-399), and the return, with which the locals now and
\* productRows are gone
pass(request, ref, arrays) ==
  LET filteredProducts == filterProductsWithFuzzy(Arr(arrays[ref]), request.words)
  IN  [request EXCEPT
         !.pc = "returned",
         !.now = 0,
         !.productRows = <<>>,
         !.data = Ref(ref),
         !.filteredProducts = filteredProducts,
         !.responseText = formatProductResponse(Arr(filteredProducts), request.words)]

\* queryMySQLProducts(words) finds the cache fresh and answers from it
StartHit(r) ==
  /\ requests[r].pc = "idle"
  /\ cacheIsFresh(mysqlCache, clock)
  /\ \E words \in CacheWordLists :
       requests' = [requests EXCEPT
                      ![r] = pass([requests[r] EXCEPT !.now = clock, !.words = words],
                                  mysqlCache.data.at, heap)]
  /\ UNCHANGED <<mysqlCache, gemstoneCache, heap, db, clock, storedAt, notCacheVars>>

\* queryMySQLProducts(words) finds the cache empty or expired and awaits
\* initMySQL()
StartMiss(r) ==
  /\ requests[r].pc = "idle"
  /\ ~cacheIsFresh(mysqlCache, clock)
  /\ \E words \in CacheWordLists :
       requests' = [requests EXCEPT
                      ![r] = [requests[r] EXCEPT !.pc = "initMySQL",
                                                 !.now = clock, !.words = words]]
  /\ UNCHANGED <<mysqlCache, gemstoneCache, heap, db, clock, storedAt, notCacheVars>>

\* initMySQL() resolves (true or false, line 384 does not look) and the
\* first query of fetchAllProductsFromMySQL is sent
InitDone(r) ==
  /\ requests[r].pc = "initMySQL"
  /\ requests' = [requests EXCEPT ![r] = [requests[r] EXCEPT !.pc = "queryProducts"]]
  /\ UNCHANGED <<mysqlCache, gemstoneCache, heap, db, clock, storedAt, notCacheVars>>

\* the products query answers with the rows of the current revision and the
\* variants query is sent
ProductsQueried(r) ==
  /\ requests[r].pc = "queryProducts"
  /\ requests' = [requests EXCEPT
                    ![r] = [requests[r] EXCEPT !.pc = "queryVariants",
                                               !.productRows = ProductRows(db)]]
  /\ UNCHANGED <<mysqlCache, gemstoneCache, heap, db, clock, storedAt, notCacheVars>>

\* the variants query answers: allProducts is built, stored in the cache
\* (lines 390-391), filtered and formatted
VariantsQueried(r) ==
  /\ requests[r].pc = "queryVariants"
  /\ LET allProducts == buildAllProducts(requests[r].productRows, db)
         ref         == Len(heap) + 1
     IN  /\ heap' = heapAfterFetch(heap, mysqlCache, allProducts)
         /\ mysqlCache' = [data |-> Ref(ref), timestamp |-> requests[r].now]
         /\ storedAt' = clock
         /\ requests' = [requests EXCEPT ![r] = pass(requests[r], ref, heap')]
  /\ UNCHANGED <<gemstoneCache, db, clock, notCacheVars>>

\* getConnection or a query rejects: fetchAllProductsFromMySQL throws and
\* queryMySQLProducts rethrows (lines 400-403)
FetchFails(r) ==
  /\ requests[r].pc \in {"queryProducts", "queryVariants"}
  /\ requests' = [requests EXCEPT ![r] = [IdleRequest EXCEPT !.pc = "threw"]]
  /\ UNCHANGED <<mysqlCache, gemstoneCache, heap, db, clock, storedAt, notCacheVars>>

NextCache ==
  \/ Tick
  \/ CatalogUpdate
  \/ \E r \in Requests : StartHit(r)
  \/ \E r \in Requests : StartMiss(r)
  \/ \E r \in Requests : InitDone(r)
  \/ \E r \in Requests : ProductsQueried(r)
  \/ \E r \in Requests : VariantsQueried(r)
  \/ \E r \in Requests : FetchFails(r)

SpecCache == InitCache /\ [][NextCache]_vars

---------------------------------------------------------------------------
\* the requests that have been answered
Answered == {r \in Requests : requests[r].pc = "returned"}

\* the revisions of the product rows that a list of products shows
RevisionsOf(list) == {list[k].description : k \in 1..Len(list)}

\* what an answered request returned is the filter of one array of the
\* heap, as that array is now, and shows the product rows of one revision
OneSnapshotPerResponse ==
  \A r \in Answered :
    LET request == requests[r]
    IN  /\ request.data.type = "ref"
        /\ request.data.at \in 1..Len(heap)
        /\ request.filteredProducts =
             filterProductsWithFuzzy(Arr(heap[request.data.at]), request.words)
        /\ request.responseText =
             formatProductResponse(Arr(request.filteredProducts), request.words)
        /\ Cardinality(RevisionsOf(request.filteredProducts)) <= 1

\* no step writes to an array that exists, and a step that changes
\* mysqlCache.data makes it refer to an array built in that step
RefreshReplacesArray ==
  /\ Len(heap') >= Len(heap)
  /\ \A k \in 1..Len(heap) : heap'[k] = heap[k]
  /\ mysqlCache'.data # mysqlCache.data
       => /\ mysqlCache'.data.type = "ref"
          /\ mysqlCache'.data.at \in (Len(heap) + 1)..Len(heap')

\* C20: under every interleaving of requests and catalog refreshes, each
\* filter and format pass runs over one array from start to end: a refresh
\* makes mysqlCache.data refer to a new array and never writes to an array
\* that a pass has scanned or may scan, so no response mixes the products of
\* two snapshots
C20_PassOverOneSnapshot ==
  /\ []OneSnapshotPerResponse
  /\ [][RefreshReplacesArray]_vars

\* two requests were answered from two different arrays, each listing both
\* products: one shows revision 1, the other revision 2, and the array of
\* the first is still what it was although the cache was refreshed since
C20_Witness ==
  /\ Answered = Requests
  /\ requests[1].data # requests[2].data
  /\ Len(requests[1].filteredProducts) = 2
  /\ Len(requests[2].filteredProducts) = 2
  /\ RevisionsOf(requests[1].filteredProducts) = {<<"r", "e", "v", " ", "1">>}
  /\ RevisionsOf(requests[2].filteredProducts) = {<<"r", "e", "v", " ", "2">>}
  /\ mysqlCache.data = requests[2].data
  /\ OneSnapshotPerResponse

---------------------------------------------------------------------------
(* Specification SpecDiagnostic: calls of filterProductsWithFuzzy on the    *)
(* short catalogs, for the two passes over the words of lines 497-561      *)

InitDiagnostic ==
  /\ products \in {Arr(c) : c \in ShortCatalogs}
  /\ searchWords \in SearchWordsInputs
  /\ filtered = <<>>
  /\ pc = "input"
  /\ calls = 0
  /\ str1 = <<>>
  /\ str2 = <<>>
  /\ distance = 0
  /\ similarity = <<0, 1>>
  /\ called = {}
  /\ response = <<>>
  /\ CachesUntouched

NextDiagnostic == Filter

SpecDiagnostic == InitDiagnostic /\ [][NextDiagnostic]_vars

\* the words of the list that the decision pass accepts for a haystack
DecidingWords(text) ==
  {searchWords.items[k] : k \in {j \in 1..Len(searchWords.items) :
                                   wordMatches(text, searchWords.items[j])}}

\* C24: the diagnostic pass is at least as lenient as the decision pass:
\* every word that satisfies the decision pass for a product is in that
\* product's matchedWords, so matchedWords is not empty when the product
\* matches; and a product is returned because of the decision pass only,
\* whatever matchedWords would hold
C24_DiagnosticAtLeastAsLenient ==
  FilteredByWords
  => /\ \A p \in Range(products.items) :
          hasMatch(p, searchWords.items)
            => LET mw == matchedWords(p, searchWords.items)
               IN  /\ mw # <<>>
                   /\ DecidingWords(searchText(p)) \subseteq Range(mw)
     /\ \A k \in 1..Len(products.items) :
          LET text == searchText(products.items[k])
          IN  (DecidingWords(text) = {})
                => ~InSeq(products.items[k], filtered)

\* "preciousness" was decided by its window "precious" and is in the
\* matchedWords of the product returned; and "rubyy", which only the
\* diagnostic pass accepts for "Ruby Gemstone", returned nothing
C24_Witness ==
  /\ FilteredByWords
  /\ \/ /\ searchWords.items = <<TOK_PRECIOUSNESS>>
        /\ Len(filtered) > 0
        /\ matchedWords(filtered[1], searchWords.items) = <<TOK_PRECIOUSNESS>>
     \/ /\ searchWords.items = <<TOK_RUBYY>>
        /\ filtered = <<>>
        /\ \E p \in Range(products.items) :
             matchedWords(p, searchWords.items) = <<TOK_RUBYY>>


---------------------------------------------------------------------------
(* The webhook handler, src/index.js:189-266, and preprocessWithGemini,    *)
(* src/index.js:269-367                                                    *)
(*                                                                         *)
(* hook.replies are the replies the code makes, in order: each call of     *)
(* res.status(n).json(...).  hook.sent is what went out to the client: the *)
(* first reply; a later res.json throws ERR_HTTP_HEADERS_SENT.             *)

\* the webhook requests that the model follows, one after the other
MaxWebhooks == 2

\* String.prototype.trim, for the space character
RECURSIVE trimStart(_)
trimStart(s) ==
  IF s # <<>> /\ Head(s) = " " THEN trimStart(Tail(s)) ELSE s

RECURSIVE trimEnd(_)
trimEnd(s) ==
  IF s # <<>> /\ s[Len(s)] = " " THEN trimEnd(SubSeq(s, 1, Len(s) - 1)) ELSE s

trim(s) == trimEnd(trimStart(s))

\* the tokens with the words of two characters kept
webhookWordsKeepShort(correctedText) ==
  LET long(word) == Len(word) > 1
  IN  SelectSeq(split(toLowerCase(correctedText)), long)

\* const words = correctedText.toLowerCase().split(' ').filter(word =>
\*   word.length > 2)   (line 233)
webhookWords(correctedText) ==
  LET long(word) == Len(word) > 2
  IN  SelectSeq(split(toLowerCase(correctedText)), long)

\* req.body.text || req.body.queryText || req.body.queryResult?.queryText
\* || ''   (line 207); a body is a function from its property names
bodyText(body) ==
  IF "text" \in DOMAIN body /\ body["text"] # <<>> THEN body["text"]
  ELSE IF "queryText" \in DOMAIN body /\ body["queryText"] # <<>>
         THEN body["queryText"]
  ELSE IF /\ "queryResult" \in DOMAIN body
          /\ "queryText" \in DOMAIN body["queryResult"]
          /\ body["queryResult"]["queryText"] # <<>>
         THEN body["queryResult"]["queryText"]
  ELSE <<>>

\* const cacheKey = text.toLowerCase().trim()   (line 280)
cacheKey(text) == trim(toLowerCase(text))

\* gemstoneCache.correctedNames.has(key) and .get(key); the Map is the set
\* of its entries
correctedNamesHas(cache, key) == \E e \in cache.correctedNames : e.key = key

correctedNamesGet(cache, key) ==
  (CHOOSE e \in cache.correctedNames : e.key = key).value

\* gemstoneCache.correctedNames.set(key, value)
correctedNamesSet(cache, key, value) ==
  [cache EXCEPT !.correctedNames =
     {e \in cache.correctedNames : e.key # key} \cup {[key |-> key, value |-> value]}]

\* 'not gemstone related'
NOT_GEMSTONE_RELATED ==
  <<"n", "o", "t", " ", "g", "e", "m", "s", "t", "o", "n", "e", " ",
    "r", "e", "l", "a", "t", "e", "d">>

\* what the code after the fetch of line 310 makes of the answer of the
\* Gemini API (lines 329-366): the text that preprocessWithGemini returns,
\* the entry it caches, and which path it took
geminiResult(text, answer) ==
  IF answer.type = "candidates"
    THEN LET correctedText == trim(answer.text)
         IN  IF includes(toLowerCase(correctedText), NOT_GEMSTONE_RELATED)
               THEN [text |-> text, cached |-> TRUE, normalized |-> "unrelated"]
               ELSE [text |-> correctedText, cached |-> TRUE,
                     normalized |-> "corrected"]
    ELSE [text |-> text, cached |-> FALSE, normalized |-> "failed"]

\* the texts of the requests: "Ruby an", "OPAL", " ruby gem"
TEXT_RUBY_AN == <<"R", "u", "b", "y", " ", "a", "n">>

TEXT_OPAL == <<"O", "P", "A", "L">>

TEXT_RUBY_GEM == <<" ", "r", "u", "b", "y", " ", "g", "e", "m">>

\* the bodies of the requests: the text under each of the three property
\* names, an empty text that lets queryText through, and no text at all
Bodies ==
  { [n \in {"text"} |-> TEXT_RUBY_AN],
    [n \in {"queryText"} |-> TEXT_OPAL],
    [n \in {"queryResult"} |-> [m \in {"queryText"} |-> TEXT_RUBY_GEM]],
    [n \in {"text", "queryText"} |-> IF n = "text" THEN <<>> ELSE TEXT_RUBY_AN],
    [n \in {"text"} |-> <<>>],
    <<>> }

\* the answers of the Gemini API: the fetch rejects, the status is not ok,
\* the JSON has no candidates, or it has candidates[0].content.parts[0].text
GeminiAnswers ==
  { [type |-> "rejected"],
    [type |-> "notOk"],
    [type |-> "malformed"],
    [type |-> "candidates", text |-> <<" ", "R", "u", "b", "y", " ", "8", "m">>],
    [type |-> "candidates",
     text |-> <<"N", "o", "t", " ", "g", "e", "m", "s", "t", "o", "n", "e", " ",
                "r", "e", "l", "a", "t", "e", "d", ".">>] }

\* the catalogs that queryMySQLProducts finds
WebhookCatalogs == {<<>>, <<ProductPool[2]>>}

\* res.status(status).json(...): the reply is recorded; it goes out when
\* nothing went out before
replied(h, status) ==
  [h EXCEPT !.replies = Append(@, status),
            !.sent = IF @ = <<>> THEN <<status>> ELSE @]

\* clearTimeout(timeout): a timer that has fired stays fired
clearTimeout(h) ==
  [h EXCEPT !.timeout = IF @ = "armed" THEN "cleared" ELSE @]

\* lines 231-237: the text that preprocessWithGemini returned is split into
\* words and queryMySQLProducts(words) is called
afterPreprocess(h, correctedText, normalized) ==
  [h EXCEPT !.pc = "query",
            !.correctedText = correctedText,
            !.normalized = normalized,
            !.words = webhookWords(correctedText),
            !.queried = TRUE]

\* lines 250-251, and the catch block of lines 253-265 when line 251
\* throws, as res.json does when a reply went out before
replyOk(h) ==
  LET cleared == clearTimeout(h)
  IN  IF cleared.sent # <<>>
        THEN [replied(replied(cleared, 200), 500) EXCEPT !.pc = "done",
                                                         !.rejected = TRUE]
        ELSE [replied(cleared, 200) EXCEPT !.pc = "done"]

\* the catch block of lines 253-265
replyError(h) ==
  LET cleared == clearTimeout(h)
  IN  [replied(cleared, 500) EXCEPT !.pc = "done",
                                    !.rejected = cleared.sent # <<>>]

\* a request arrives: the timer is set; with no text the handler replies
\* 400; otherwise preprocessWithGemini(text) returns the text (no API key)
\* or the cached correction, or awaits the fetch of line 310
HookReceive ==
  /\ hook.pc \in {"idle", "done"}
  /\ hook.received < MaxWebhooks
  /\ \E body \in Bodies :
       LET text == bodyText(body)
           h    == [IdleHook EXCEPT !.apiKey = hook.apiKey,
                                    !.received = hook.received + 1,
                                    !.timeout = "armed",
                                    !.text = text]
       IN  hook' =
             IF text = <<>>
               THEN [replied(clearTimeout(h), 400) EXCEPT !.pc = "done"]
             ELSE IF ~h.apiKey
               THEN afterPreprocess(h, text, "noKey")
             ELSE IF correctedNamesHas(gemstoneCache, cacheKey(text))
               THEN afterPreprocess(h, correctedNamesGet(gemstoneCache, cacheKey(text)),
                                    "cached")
             ELSE [h EXCEPT !.pc = "gemini"]
  /\ UNCHANGED <<products, searchWords, filtered, pc, calls, str1, str2, distance,
                 similarity, called, response, cacheVars, sync, tables>>

\* the Gemini API answers, or the fetch fails
GeminiAnswered ==
  /\ hook.pc = "gemini"
  /\ \E answer \in GeminiAnswers :
       LET result == geminiResult(hook.text, answer)
       IN  /\ hook' = afterPreprocess(hook, result.text, result.normalized)
           /\ gemstoneCache' =
                IF result.cached
                  THEN correctedNamesSet(gemstoneCache, cacheKey(hook.text), result.text)
                  ELSE gemstoneCache
  /\ UNCHANGED <<products, searchWords, filtered, pc, calls, str1, str2, distance,
                 similarity, called, response, mysqlCache, heap, db, requests,
                 clock, storedAt, sync, tables>>

\* queryMySQLProducts(words) resolves with the text for the matching
\* products of the catalog, and the handler replies 200
QueryResolved ==
  /\ hook.pc = "query"
  /\ \E allProducts \in WebhookCatalogs :
       /\ filtered' = filterProductsWithFuzzy(Arr(allProducts), Arr(hook.words))
       /\ response' = formatProductResponse(Arr(filtered'), Arr(hook.words))
  /\ hook' = replyOk(hook)
  /\ UNCHANGED <<products, searchWords, pc, calls, str1, str2, distance,
                 similarity, called, cacheVars, sync, tables>>

\* queryMySQLProducts(words) rejects, and the handler replies 500
QueryRejected ==
  /\ hook.pc = "query"
  /\ hook' = replyError(hook)
  /\ UNCHANGED <<products, searchWords, filtered, pc, calls, str1, str2, distance,
                 similarity, called, response, cacheVars, sync, tables>>

\* 25 seconds after the request arrived the timer fires, unless it was
\* cleared, and its callback replies 408 (lines 191-202)
TimerFires ==
  /\ hook.timeout = "armed"
  /\ hook' = [replied(hook, 408) EXCEPT !.timeout = "fired"]
  /\ UNCHANGED <<products, searchWords, filtered, pc, calls, str1, str2, distance,
                 similarity, called, response, cacheVars, sync, tables>>

InitWebhook ==
  /\ mysqlCache = InitialMysqlCache
  /\ gemstoneCache = InitialGemstoneCache
  /\ heap = <<>>
  /\ db = 1
  /\ requests = <<>>
  /\ clock = 0
  /\ storedAt = 0
  /\ hook \in {[IdleHook EXCEPT !.apiKey = k] : k \in BOOLEAN}
  /\ sync = IdleSync
  /\ tables = InitialTables
  /\ products = Arr(<<>>)
  /\ searchWords = Arr(<<>>)
  /\ filtered = <<>>
  /\ pc = "input"
  /\ calls = 0
  /\ str1 = <<>>
  /\ str2 = <<>>
  /\ distance = 0
  /\ similarity = <<0, 1>>
  /\ called = {}
  /\ response = <<>>

NextWebhook ==
  \/ HookReceive
  \/ GeminiAnswered
  \/ QueryResolved
  \/ QueryRejected
  \/ TimerFires

SpecWebhook == InitWebhook /\ [][NextWebhook]_vars

---------------------------------------------------------------------------
\* C21: every token handed to queryMySQLProducts is lowercase and longer
\* than 2 characters, whichever way preprocessWithGemini returned (no API
\* key, cached correction, corrected text, "not gemstone related", failed
\* call or malformed answer); on the fallback paths the tokens are those of
\* the raw text, and the handler replies 500 only after it has called
\* queryMySQLProducts, never because the normalization failed.
C21_TokensLowercaseAndLong ==
  /\ hook.normalized # "none" =>
       /\ hook.queried
       /\ \A k \in 1..Len(hook.words) :
            /\ Len(hook.words[k]) > 2
            /\ \A c \in 1..Len(hook.words[k]) :
                 hook.words[k][c] \notin Range(UpperChars)
  /\ hook.normalized \in {"noKey", "failed", "unrelated"} =>
       hook.correctedText = hook.text
  /\ 500 \in Range(hook.replies) => hook.queried

\* the Gemini call failed on "Ruby an": the search ran on <<"ruby">> and the
\* request was answered with 200
C21_Witness ==
  /\ hook.normalized = "failed"
  /\ hook.text = TEXT_RUBY_AN
  /\ hook.words = <<<<"r", "u", "b", "y">>>>
  /\ hook.sent = <<200>>

---------------------------------------------------------------------------
(* Specification SpecExpiry: the calls of queryMySQLProducts of SpecCache  *)
(* against a clock that advances minute by minute, up to MaxMinutes        *)

MaxMinutes == 5

\* a minute passes
Minute ==
  /\ clock < MaxMinutes
  /\ clock' = clock + 1
  /\ UNCHANGED <<mysqlCache, gemstoneCache, heap, db, requests, storedAt, notCacheVars>>

NextExpiry ==
  \/ Minute
  \/ \E r \in Requests : StartHit(r)
  \/ \E r \in Requests : StartMiss(r)
  \/ \E r \in Requests : InitDone(r)
  \/ \E r \in Requests : ProductsQueried(r)
  \/ \E r \in Requests : VariantsQueried(r)
  \/ \E r \in Requests : FetchFails(r)

SpecExpiry == InitCache /\ [][NextExpiry]_vars

\* C23: a call of queryMySQLProducts answers from the cache exactly when a
\* catalog is stored and the clock reads less than CACHE_DURATION (5
\* minutes) after mysqlCache.timestamp, and then leaves the cache alone and
\* uses a catalog that was stored at most CACHE_DURATION before; otherwise
\* it goes to MySQL.  The cache changes only when a fetch has succeeded, data
\* and timestamp in the same step, and a fetch that fails leaves it as it
\* was and the call throws.
C23_CacheExpiry ==
  [][\A r \in Requests :
       /\ (requests[r].pc = "idle" /\ requests'[r].pc # "idle") =>
            /\ requests'[r].pc = "returned" <=>
                 /\ mysqlCache.data.type = "ref"
                 /\ clock - mysqlCache.timestamp < CACHE_DURATION
            /\ requests'[r].pc = "returned" =>
                 /\ requests'[r].data = mysqlCache.data
                 /\ clock - storedAt <= CACHE_DURATION
            /\ requests'[r].pc # "returned" => requests'[r].pc = "initMySQL"
            /\ mysqlCache' = mysqlCache
       /\ (requests[r].pc # "queryVariants" /\ requests'[r] # requests[r]) =>
            mysqlCache' = mysqlCache
       /\ (requests[r].pc = "queryVariants" /\ requests'[r].pc = "returned") =>
            /\ mysqlCache'.data.type = "ref"
            /\ mysqlCache'.data # mysqlCache.data
            /\ mysqlCache'.data = requests'[r].data
            /\ mysqlCache'.timestamp = requests[r].now
       /\ (requests[r].pc # "threw" /\ requests'[r].pc = "threw") =>
            /\ requests[r].pc \in {"queryProducts", "queryVariants"}
            /\ mysqlCache' = mysqlCache
            /\ heap' = heap
    ]_vars

\* one call was answered from the cache, and a later one found the cache
\* exactly CACHE_DURATION old and went to MySQL
C23_Witness ==
  \E r1, r2 \in Requests :
    /\ requests[r1].pc = "returned"
    /\ requests[r1].data = mysqlCache.data
    /\ Len(heap) = 1
    /\ requests[r2].pc = "initMySQL"
    /\ requests[r2].now = mysqlCache.timestamp + CACHE_DURATION

---------------------------------------------------------------------------
(* The sync job, src/shopify-to-mysql-sync.js: syncShopifyToMySQL          *)
(* (281-353), saveProductsToMySQL (180-249), logSyncOperation (252-278),   *)
(* initMySQL (17-41) and fetchAllProductsFromShopify (44-68).  Every await *)
(* is a step that the awaited operation ends by resolving or rejecting.    *)
(*                                                                         *)
(* The statements of saveProductsToMySQL run inside its transaction: they  *)
(* change sync.work, which commit copies to tables and which rollback, or  *)
(* the loss of the connection, discards.                                   *)

\* the runs of syncShopifyToMySQL in one process
MaxSyncs == 1

\* products as fetchProductsPage builds them (lines 140-153)
SHOPIFY_RUBY ==
  [id |-> 1, title |-> RUBYGEM,
   tags |-> <<<<"b", "e", "a", "d", "s">>, <<"r", "e", "d">>>>,
   variants |-> <<[title |-> TOK_RED, price |-> 10], [title |-> TOK_RU, price |-> 20]>>]

SHOPIFY_EMERALD ==
  [id |-> 2, title |-> EMERALD, variants |-> <<>>]

\* what Shopify answers, page by page
Feeds ==
  { << <<>> >>,
    << <<SHOPIFY_RUBY>> >>,
    << <<SHOPIFY_RUBY>>, <<SHOPIFY_EMERALD>> >>,
    << <<SHOPIFY_EMERALD, SHOPIFY_RUBY>> >> }

\* the tables after an earlier sync: the ruby under its old title with one
\* old variant, and a product that Shopify no longer has
SeededTables ==
  [InitialTables EXCEPT
     !.products = {[id |-> 1, title |-> TOK_RUBYY, tags |-> [type |-> "null"]],
                   [id |-> 3, title |-> AMETHYST, tags |-> [type |-> "null"]]},
     !.product_variants = <<[product_id |-> 1, title |-> TOK_RU, price |-> 5],
                            [product_id |-> 3, title |-> TOK_RED, price |-> 7]>>]

\* the parameters of the INSERT of lines 205-212
productRow(product) ==
  [id |-> product.id, title |-> product.title,
   tags |-> IF "tags" \in DOMAIN product
              THEN [type |-> "string", chars |-> join(product.tags)]
              ELSE [type |-> "null"]]

\* INSERT INTO products ... ON DUPLICATE KEY UPDATE ...   (lines 193-203)
upsertProduct(t, product) ==
  [t EXCEPT !.products =
     {row \in t.products : row.id # product.id} \cup {productRow(product)}]

\* DELETE FROM product_variants WHERE product_id = ?   (line 217)
deleteVariants(t, id) ==
  LET others(row) == row.product_id # id
  IN  [t EXCEPT !.product_variants = SelectSeq(@, others)]

\* INSERT INTO product_variants ...   (lines 221-232)
insertVariant(t, id, variant) ==
  [t EXCEPT !.product_variants =
     Append(@, [product_id |-> id, title |-> variant.title, price |-> variant.price])]

\* products.reduce((total, p) => total + p.variants.length, 0)   (line 299)
RECURSIVE variantsCount(_)
variantsCount(ps) ==
  IF ps = <<>> THEN 0 ELSE Len(Head(ps).variants) + variantsCount(Tail(ps))

\* INSERT INTO sync_log ...   (lines 256-269)
insertSyncLog(t, row) == [t EXCEPT !.sync_log = Append(@, row)]

\* products and product_variants of t
catalogOf(t) == [products |-> t.products, product_variants |-> t.product_variants]

\* the await that follows in saveProductsToMySQL once the statement of
\* product i, variant j has been executed: the next variant, the next
\* product, or the commit (lines 191-238)
nextStatement(s) ==
  IF s.i >= 1 /\ s.i <= Len(s.products) /\ s.j < Len(s.products[s.i].variants)
    THEN [s EXCEPT !.pc = "save:insert", !.j = s.j + 1]
  ELSE IF s.i < Len(s.products)
    THEN [s EXCEPT !.pc = "save:upsert", !.i = s.i + 1, !.j = 0]
  ELSE [s EXCEPT !.pc = "save:commit"]

\* logSyncOperation(...) is called (lines 308 and 336) and awaits
\* connectionPool.getConnection()   (line 253)
logCalled(s, status) ==
  [s EXCEPT !.logged = s.logged + 1,
            !.pc = IF status = "success" THEN "logSuccess:getConnection"
                   ELSE "logError:getConnection"]

\* what the promise of syncShopifyToMySQL settles with: the return value of
\* line 321 or 343, or the exception that left the catch block
settled(s) ==
  IF s.outcome = "rejected" THEN [state |-> "rejected", error |-> s.error]
  ELSE IF s.outcome = "success" THEN [state |-> "resolved", success |-> TRUE]
  ELSE [state |-> "resolved", success |-> FALSE, error |-> s.error]

\* the finally block of lines 348-352: the pool, if there is one, is ended
\* before the promise settles
finallyBlock(s) ==
  IF s.connectionPool # "undefined"
    THEN [s EXCEPT !.pc = "end"]
    ELSE [s EXCEPT !.pc = "done", !.result = settled(s)]

\* the catch block of lines 330-347 up to its await: error.message is kept
\* and logSyncOperation(0, 0, 0, 0, 'error', ...) is called.  With no pool,
\* connectionPool.getConnection() is a TypeError: logSyncOperation rejects
\* and the exception leaves the catch block
caught(s, error) ==
  LET c == [s EXCEPT !.error = error]
  IN  IF c.connectionPool = "undefined"
        THEN finallyBlock([c EXCEPT !.logged = c.logged + 1,
                                    !.outcome = "rejected",
                                    !.error = "TypeError"])
        ELSE logCalled(c, "error")

\* saveProductsToMySQL throws: finally releases the connection, if there is
\* one, and syncShopifyToMySQL catches
saveThrew(s, error) ==
  caught([s EXCEPT !.saved = "threw", !.thrown = error, !.transaction = FALSE,
                   !.connection = IF @ = "held" THEN "released" ELSE @],
         error)

\* a statement of the try block of saveProductsToMySQL rejects: the catch
\* block awaits connection.rollback()   (lines 243-244)
statementFailed(s, error) ==
  [s EXCEPT !.pc = "save:rollback", !.failed = error]

\* syncShopifyToMySQL() is called
SyncStart ==
  /\ sync.pc \in {"idle", "done"}
  /\ sync.runs < MaxSyncs
  /\ LET s == [IdleSync EXCEPT !.config = sync.config,
                               !.connectionPool = sync.connectionPool,
                               !.runs = sync.runs + 1]
     IN  sync' = IF ~s.config
                   THEN caught(s, "Missing Shopify configuration")
                   ELSE [s EXCEPT !.pc = "initMySQL", !.connectionPool = "open"]
  /\ UNCHANGED <<indexVars, tables>>

\* the getConnection() of initMySQL settles: initMySQL returns true or false
InitMySQLSettled ==
  /\ sync.pc = "initMySQL"
  /\ \/ \E feed \in Feeds : sync' = [sync EXCEPT !.pc = "fetchPage", !.feed = feed]
     \/ sync' = caught(sync, "MySQL connection failed")
  /\ UNCHANGED <<indexVars, tables>>

\* fetchProductsPage(cursor) resolves with the next page: with more pages
\* the loop goes on, after the last one saveProductsToMySQL(products) is
\* called and awaits getConnection()
PageFetched ==
  /\ sync.pc = "fetchPage"
  /\ LET allProducts == sync.products \o Head(sync.feed)
         hasMore     == Len(sync.feed) > 1
     IN  sync' = IF hasMore
                   THEN [sync EXCEPT !.products = allProducts, !.feed = Tail(@)]
                   ELSE [sync EXCEPT !.products = allProducts, !.feed = <<>>,
                                     !.before = catalogOf(tables),
                                     !.pc = "save:getConnection"]
  /\ UNCHANGED <<indexVars, tables>>

\* fetchProductsPage(cursor) rejects
PageFailed ==
  /\ sync.pc = "fetchPage"
  /\ sync' = caught(sync, "fetch")
  /\ UNCHANGED <<indexVars, tables>>

\* the getConnection() of saveProductsToMySQL (line 183) settles
SaveConnectionSettled ==
  /\ sync.pc = "save:getConnection"
  /\ \/ sync' = [sync EXCEPT !.pc = "save:begin", !.connection = "held"]
     \/ sync' = saveThrew([sync EXCEPT !.failed = "getConnection"], "getConnection")
  /\ UNCHANGED <<indexVars, tables>>

\* connection.beginTransaction() settles (line 186)
BeginSettled ==
  /\ sync.pc = "save:begin"
  /\ \/ sync' = nextStatement([sync EXCEPT !.transaction = TRUE,
                                           !.work = catalogOf(tables)])
     \/ sync' = statementFailed(sync, "beginTransaction")
  /\ UNCHANGED <<indexVars, tables>>

\* the INSERT ... ON DUPLICATE KEY UPDATE of product i settles (205-214);
\* the DELETE of its variants is sent
UpsertSettled ==
  /\ sync.pc = "save:upsert"
  /\ \/ sync' = [sync EXCEPT !.work = upsertProduct(sync.work, sync.products[sync.i]),
                              !.pc = "save:delete",
                          !.productsUpdated = sync.productsUpdated + 1]
     \/ sync' = statementFailed(sync, "execute")
  /\ UNCHANGED <<indexVars, tables>>

\* the DELETE of the variants of product i settles (line 217)
DeleteSettled ==
  /\ sync.pc = "save:delete"
  /\ \/ sync' = nextStatement(
                  [sync EXCEPT !.work = deleteVariants(sync.work, sync.products[sync.i].id)])
     \/ sync' = statementFailed(sync, "execute")
  /\ UNCHANGED <<indexVars, tables>>

\* the INSERT of variant j of product i settles (lines 226-234)
InsertSettled ==
  /\ sync.pc = "save:insert"
  /\ \/ sync' = nextStatement(
                  [sync EXCEPT !.work = insertVariant(sync.work, sync.products[sync.i].id,
                                                      sync.products[sync.i].variants[sync.j]),
                               !.variantsUpdated = sync.variantsUpdated + 1])
     \/ sync' = statementFailed(sync, "execute")
  /\ UNCHANGED <<indexVars, tables>>

\* connection.commit() resolves (line 238): the rows are in the tables,
\* finally releases the connection, saveProductsToMySQL returns the counts
\* and syncShopifyToMySQL calls logSyncOperation(..., 'success', ...)
CommitResolved ==
  /\ sync.pc = "save:commit"
  /\ tables' = [tables EXCEPT !.products = sync.work.products,
                              !.product_variants = sync.work.product_variants]
  /\ LET returned == [sync EXCEPT !.saved = "returned", !.transaction = FALSE,
                                  !.connection = "released"]
         logging  == logCalled(returned, "success")
     IN  sync' = logging
  /\ UNCHANGED indexVars

\* connection.commit() rejects
CommitRejected ==
  /\ sync.pc = "save:commit"
  /\ sync' = statementFailed(sync, "commit")
  /\ UNCHANGED <<indexVars, tables>>

\* connection.rollback() resolves (line 244): line 245 rethrows the error
RollbackResolved ==
  /\ sync.pc = "save:rollback"
  /\ sync' = saveThrew(sync, sync.failed)
  /\ UNCHANGED <<indexVars, tables>>

\* connection.rollback() rejects, as it does on a lost connection: the
\* server drops the transaction, and line 245 is not reached
RollbackRejected ==
  /\ sync.pc = "save:rollback"
  /\ sync' = saveThrew(sync, "rollback")
  /\ UNCHANGED <<indexVars, tables>>

\* the getConnection() of logSyncOperation (line 253) resolves and the
\* INSERT INTO sync_log is sent
LogConnectionResolved ==
  /\ sync.pc \in {"logSuccess:getConnection", "logError:getConnection"}
  /\ sync' = [sync EXCEPT !.pc = IF @ = "logSuccess:getConnection"
                                   THEN "logSuccess:execute" ELSE "logError:execute"]
  /\ UNCHANGED <<indexVars, tables>>

\* the getConnection() of logSyncOperation rejects, outside its try block:
\* logSyncOperation rejects.  Called from line 308 that is caught at line
\* 330; called from line 336 it leaves the catch block by the exception
LogConnectionRejected ==
  /\ sync.pc \in {"logSuccess:getConnection", "logError:getConnection"}
  /\ sync' = IF sync.pc = "logSuccess:getConnection"
               THEN caught(sync, "getConnection")
               ELSE finallyBlock([sync EXCEPT !.outcome = "rejected",
                                              !.error = "getConnection"])
  /\ UNCHANGED <<indexVars, tables>>

\* the INSERT INTO sync_log settles (lines 261-277): the row is written, or
\* the failure is logged to the console; the connection is released,
\* syncShopifyToMySQL has its return value and enters finally
LogExecuteSettled ==
  /\ sync.pc \in {"logSuccess:execute", "logError:execute"}
  /\ LET success == sync.pc = "logSuccess:execute"
         row == IF success
                  THEN [products_fetched |-> Len(sync.products),
                        products_updated |-> sync.productsUpdated,
                        variants_fetched |-> variantsCount(sync.products),
                        variants_updated |-> sync.variantsUpdated,
                        status |-> "success"]
                  ELSE [products_fetched |-> 0, products_updated |-> 0,
                        variants_fetched |-> 0, variants_updated |-> 0,
                        status |-> "error"]
     IN  /\ \/ tables' = insertSyncLog(tables, row)
            \/ tables' = tables
         /\ sync' = finallyBlock([sync EXCEPT !.outcome = IF success THEN "success"
                                                          ELSE "failure"])
  /\ UNCHANGED indexVars

\* connectionPool.end() resolves (line 350) and the promise of
\* syncShopifyToMySQL settles
PoolEnded ==
  /\ sync.pc = "end"
  /\ sync' = [sync EXCEPT
                !.pc = "done",
                !.connectionPool = "ended",
                !.result = settled(sync)]
  /\ UNCHANGED <<indexVars, tables>>

InitSync ==
  /\ mysqlCache = InitialMysqlCache
  /\ gemstoneCache = InitialGemstoneCache
  /\ heap = <<>>
  /\ db = 1
  /\ requests = <<>>
  /\ clock = 0
  /\ storedAt = 0
  /\ hook = IdleHook
  /\ sync \in {[IdleSync EXCEPT !.config = c] : c \in BOOLEAN}
  /\ tables \in {InitialTables, SeededTables}
  /\ products = Arr(<<>>)
  /\ searchWords = Arr(<<>>)
  /\ filtered = <<>>
  /\ pc = "input"
  /\ calls = 0
  /\ str1 = <<>>
  /\ str2 = <<>>
  /\ distance = 0
  /\ similarity = <<0, 1>>
  /\ called = {}
  /\ response = <<>>

NextSync ==
  \/ SyncStart
  \/ InitMySQLSettled
  \/ PageFetched
  \/ PageFailed
  \/ SaveConnectionSettled
  \/ BeginSettled
  \/ UpsertSettled
  \/ DeleteSettled
  \/ InsertSettled
  \/ CommitResolved
  \/ CommitRejected
  \/ RollbackResolved
  \/ RollbackRejected
  \/ LogConnectionResolved
  \/ LogConnectionRejected
  \/ LogExecuteSettled
  \/ PoolEnded

SpecSync == InitSync /\ [][NextSync]_vars

---------------------------------------------------------------------------
\* the rows of product_variants of product id, in order
VariantsOf(t, id) ==
  LET mine(row) == row.product_id = id
  IN  SelectSeq(t.product_variants, mine)

\* the rows that the variants of a fetched product become
FetchedVariants(product) ==
  [k \in 1..Len(product.variants) |->
     [product_id |-> product.id, title |-> product.variants[k].title,
      price |-> product.variants[k].price]]

FetchedIds == {sync.products[k].id : k \in 1..Len(sync.products)}

\* saveProductsToMySQL returned: every fetched product is in products with
\* its fetched columns, its variants are exactly the fetched ones, the
\* products that were not fetched are as before, the connection is released
SaveCommitted ==
  /\ \A k \in 1..Len(sync.products) :
       /\ productRow(sync.products[k]) \in tables.products
       /\ VariantsOf(tables, sync.products[k].id) = FetchedVariants(sync.products[k])
  /\ \A row \in tables.products :
       row.id \notin FetchedIds => row \in sync.before.products
  /\ \A row \in sync.before.products :
       row.id \notin FetchedIds =>
         /\ row \in tables.products
         /\ VariantsOf(tables, row.id) = VariantsOf(sync.before, row.id)
  /\ sync.connection = "released"

\* saveProductsToMySQL threw: products and product_variants are as before
\* the call and no connection is held
SaveRolledBack ==
  /\ catalogOf(tables) = sync.before
  /\ sync.connection # "held"

\* C25: the promise of syncShopifyToMySQL never rejects: when the run is
\* over it has resolved, with success: true when everything worked and with
\* success: false and the error otherwise; logSyncOperation was called
\* once, and a pool that was created has been ended.
C25_NeverRejects ==
  /\ sync.result.state # "rejected"
  /\ sync.pc = "done" =>
       /\ sync.result.state = "resolved"
       /\ sync.result.success <=> (sync.saved = "returned" /\ sync.error = "none")
       /\ ~sync.result.success => sync.result.error # "none"
       /\ sync.logged = 1
       /\ sync.connectionPool # "open"

\* C26: saveProductsToMySQL is all-or-nothing: when it returned, every
\* fetched product is upserted with exactly its fetched variants; when it
\* threw, the two tables are as before the call and the error thrown is the
\* error of the statement that failed; the connection is released either way.
C26_AllOrNothing ==
  /\ sync.saved = "returned" => SaveCommitted
  /\ sync.saved = "threw" =>
       /\ SaveRolledBack
       /\ sync.thrown = sync.failed

=============================================================================
